---- MODULE Spec2Model ----
(***************************************************************************)
(* PitchPerfect server: the validation gate, the pitch generator           *)
(* (services/deepseek.js), the code-prompt generator with its template     *)
(* fallback (services/code-prompt-generator.js) and the Express routes     *)
(* /generate, /code-prompt and /buildprompt that drive them.               *)
(*                                                                         *)
(* Strings are sequences of words.  A word is a short sequence of          *)
(* characters repeated `rep` times, so that a 2001-character idea is three *)
(* words and not 2001 sequence elements.  The word list is chosen so that  *)
(* no pattern of the code can straddle two words: a pattern occurs in a    *)
(* string exactly when it occurs in one of its words.                      *)
(***************************************************************************)
EXTENDS Integers, Sequences, FiniteSets, TLC

\* ------------------------------------------------------------------ bounds
MaxIdeaWords == 3      \* words per idea handed to the validator alone
MaxRouteWords == 2     \* words per idea posted to a route
MaxSlides == 6         \* longest slides array in a remote answer
MaxKeywordWords == 2   \* words per idea handed to the inference functions alone

\* ----------------------------------------------------------------- strings
\* JSON object literals a code-prompt answer can carry, each one word
JsonFull ==
  "{\"prompt\":\"Build it\",\"techStack\":[\"React\",\"Stripe\"],\"features\":[\"Billing\"]}"
JsonNoFeatures ==
  "{\"prompt\":\"Build it\",\"techStack\":[\"React\"]}"
JsonStringTechStack ==
  "{\"prompt\":\"Build it\",\"techStack\":\"React\"}"
JsonNoPrompt ==
  "{\"techStack\":[\"React\"]}"
JsonNoTechStack ==
  "{\"prompt\":\"Build it\"}"
JsonDuplicates ==
  "{\"prompt\":\"Build it\",\"techStack\":[\"React\",\"React\"],\"features\":[\"Billing\",\"Billing\"]}"

\* The spelling of a word: its characters, and how often they repeat.
Spell(w) ==
  CASE w = " "              -> [chars |-> <<" ">>, rep |-> 1]
    [] w = "a"              -> [chars |-> <<"a">>, rep |-> 1]
    [] w = "a*9"            -> [chars |-> <<"a">>, rep |-> 9]
    [] w = "a*491"          -> [chars |-> <<"a">>, rep |-> 491]
    [] w = "a*492"          -> [chars |-> <<"a">>, rep |-> 492]
    [] w = "a*1991"         -> [chars |-> <<"a">>, rep |-> 1991]
    [] w = "Short"          -> [chars |-> <<"S","h","o","r","t">>, rep |-> 1]
    [] w = "login"          -> [chars |-> <<"l","o","g","i","n">>, rep |-> 1]
    [] w = "<"              -> [chars |-> <<"<">>, rep |-> 1]
    [] w = ">"              -> [chars |-> <<">">>, rep |-> 1]
    [] w = "scr"            -> [chars |-> <<"s","c","r">>, rep |-> 1]
    [] w = "ipt"            -> [chars |-> <<"i","p","t">>, rep |-> 1]
    [] w = "SCRIPT"         -> [chars |-> <<"S","C","R","I","P","T">>, rep |-> 1]
    [] w = "undefined"      -> [chars |-> <<"u","n","d","e","f","i","n","e","d">>, rep |-> 1]
    [] w = "<SCRIPT"        -> [chars |-> <<"<","S","C","R","I","P","T">>, rep |-> 1]
    [] w = "JavaScript:"    -> [chars |-> <<"J","a","v","a","S","c","r","i","p","t",":">>, rep |-> 1]
    [] w = "data:text/html" -> [chars |-> <<"d","a","t","a",":","t","e","x","t","/","h","t","m","l">>, rep |-> 1]
    [] w = "script :"       -> [chars |-> <<"s","c","r","i","p","t"," ",":">>, rep |-> 1]
    [] w = "."              -> [chars |-> <<".">>, rep |-> 1]
    [] w = "{"              -> [chars |-> <<"{">>, rep |-> 1]
    [] w = "}"              -> [chars |-> <<"}">>, rep |-> 1]
    [] w = "stripe"         -> [chars |-> <<"s","t","r","i","p","e">>, rep |-> 1]
    [] w = "User" -> [chars |-> <<"U","s","e","r">>, rep |-> 1]
    [] w = "registration" -> [chars |-> <<"r","e","g","i","s","t","r","a","t","i","o","n">>, rep |-> 1]
    [] w = "Login" -> [chars |-> <<"L","o","g","i","n">>, rep |-> 1]
    [] w = "sign" -> [chars |-> <<"s","i","g","n">>, rep |-> 1]
    [] w = "dashboard" -> [chars |-> <<"d","a","s","h","b","o","a","r","d">>, rep |-> 1]
    [] w = "find" -> [chars |-> <<"f","i","n","d">>, rep |-> 1]
    [] w = "Chat" -> [chars |-> <<"C","h","a","t">>, rep |-> 1]
    [] w = "pay" -> [chars |-> <<"p","a","y">>, rep |-> 1]
    [] w = "upload" -> [chars |-> <<"u","p","l","o","a","d">>, rep |-> 1]
    [] w = "notification" -> [chars |-> <<"n","o","t","i","f","i","c","a","t","i","o","n">>, rep |-> 1]
    [] w = "admin" -> [chars |-> <<"a","d","m","i","n">>, rep |-> 1]
    [] w = "mobile" -> [chars |-> <<"m","o","b","i","l","e">>, rep |-> 1]
    [] w = "rapid" -> [chars |-> <<"r","a","p","i","d">>, rep |-> 1]
    [] w = "social" -> [chars |-> <<"s","o","c","i","a","l">>, rep |-> 1]
    [] w = "tracking" -> [chars |-> <<"t","r","a","c","k","i","n","g">>, rep |-> 1]
    [] w = "rating" -> [chars |-> <<"r","a","t","i","n","g">>, rep |-> 1]
    [] w = "photo" -> [chars |-> <<"p","h","o","t","o">>, rep |-> 1]
    [] w = "email" -> [chars |-> <<"e","m","a","i","l">>, rep |-> 1]
    [] w = JsonFull ->
         [chars |-> <<"{","\"","p","r","o","m","p","t","\"",":","\"","B","u","i","l","d"," ","i","t","\"",",","\"","t","e","c","h","S","t","a","c","k","\"",":","[","\"","R","e","a","c","t","\"",",","\"","S","t","r","i","p","e","\"","]",",","\"","f","e","a","t","u","r","e","s","\"",":","[","\"","B","i","l","l","i","n","g","\"","]","}">>,
          rep |-> 1]
    [] w = JsonNoFeatures ->
         [chars |-> <<"{","\"","p","r","o","m","p","t","\"",":","\"","B","u","i","l","d"," ","i","t","\"",",","\"","t","e","c","h","S","t","a","c","k","\"",":","[","\"","R","e","a","c","t","\"","]","}">>,
          rep |-> 1]
    [] w = JsonStringTechStack ->
         [chars |-> <<"{","\"","p","r","o","m","p","t","\"",":","\"","B","u","i","l","d"," ","i","t","\"",",","\"","t","e","c","h","S","t","a","c","k","\"",":","\"","R","e","a","c","t","\"","}">>,
          rep |-> 1]
    [] w = JsonNoPrompt ->
         [chars |-> <<"{","\"","t","e","c","h","S","t","a","c","k","\"",":","[","\"","R","e","a","c","t","\"","]","}">>,
          rep |-> 1]
    [] w = JsonNoTechStack ->
         [chars |-> <<"{","\"","p","r","o","m","p","t","\"",":","\"","B","u","i","l","d"," ","i","t","\"","}">>,
          rep |-> 1]
    [] w = JsonDuplicates ->
         [chars |-> <<"{","\"","p","r","o","m","p","t","\"",":","\"","B","u","i","l","d"," ","i","t","\"",",","\"","t","e","c","h","S","t","a","c","k","\"",":","[","\"","R","e","a","c","t","\"",",","\"","R","e","a","c","t","\"","]",",","\"","f","e","a","t","u","r","e","s","\"",":","[","\"","B","i","l","l","i","n","g","\"",",","\"","B","i","l","l","i","n","g","\"","]","}">>,
          rep |-> 1]

Words == {" ", "a", "a*9", "a*1991", "Short", "login",
          "<SCRIPT", "JavaScript:", "data:text/html", "script :"}

\* String.prototype.length
RECURSIVE StrLen(_)
StrLen(s) ==
  IF s = <<>> THEN 0
  ELSE Len(Spell(Head(s)).chars) * Spell(Head(s)).rep + StrLen(Tail(s))

IsSpace(w) == Spell(w).chars = <<" ">>

\* String.prototype.trim: drop the white space at both ends
RECURSIVE TrimLeft(_)
TrimLeft(s) ==
  IF s # <<>> /\ IsSpace(Head(s)) THEN TrimLeft(Tail(s)) ELSE s

RECURSIVE TrimRight(_)
TrimRight(s) ==
  IF s # <<>> /\ IsSpace(s[Len(s)]) THEN TrimRight(SubSeq(s, 1, Len(s) - 1)) ELSE s

Trim(s) == TrimRight(TrimLeft(s))

\* the upper-case letters and their lower-case forms
UpperToLower ==
  [A |-> "a", B |-> "b", C |-> "c", D |-> "d", E |-> "e", F |-> "f", G |-> "g",
   H |-> "h", I |-> "i", J |-> "j", K |-> "k", L |-> "l", M |-> "m", N |-> "n",
   O |-> "o", P |-> "p", Q |-> "q", R |-> "r", S |-> "s", T |-> "t", U |-> "u",
   V |-> "v", W |-> "w", X |-> "x", Y |-> "y", Z |-> "z"]

\* The case folding of one character (the /i flag, toLowerCase)
LowerChar(c) == IF c \in DOMAIN UpperToLower THEN UpperToLower[c] ELSE c

LowerChars(cs) == [i \in 1..Len(cs) |-> LowerChar(cs[i])]

\* pattern p (a sequence of characters) occurs in cs at position i
OccursAt(p, cs, i) ==
  /\ i + Len(p) - 1 <= Len(cs)
  /\ \A k \in 1..Len(p) : cs[i + k - 1] = p[k]

\* cs[i..] is \s* followed by ':'
RECURSIVE SpacesThenColon(_, _)
SpacesThenColon(cs, i) ==
  /\ i <= Len(cs)
  /\ \/ cs[i] = ":"
     \/ cs[i] = " " /\ SpacesThenColon(cs, i + 1)

\* RegExp.prototype.test for the four harmfulPatterns, all with the i flag
TestChars(pattern, cs) ==
  LET lc == LowerChars(cs) IN
  CASE pattern = "script\\s*:" ->
         \E i \in 1..Len(lc) :
            OccursAt(<<"s","c","r","i","p","t">>, lc, i) /\ SpacesThenColon(lc, i + 6)
    [] pattern = "<script" ->
         \E i \in 1..Len(lc) : OccursAt(<<"<","s","c","r","i","p","t">>, lc, i)
    [] pattern = "javascript:" ->
         \E i \in 1..Len(lc) :
            OccursAt(<<"j","a","v","a","s","c","r","i","p","t",":">>, lc, i)
    [] pattern = "data:text\\/html" ->
         \E i \in 1..Len(lc) :
            OccursAt(<<"d","a","t","a",":","t","e","x","t","/","h","t","m","l">>, lc, i)

Test(pattern, s) == \E i \in 1..Len(s) : TestChars(pattern, Spell(s[i]).chars)

harmfulPatterns == <<"script\\s*:", "<script", "javascript:", "data:text\\/html">>

\* harmfulPatterns.some(pattern => pattern.test(s))
MatchesBlocked(s) == \E k \in 1..Len(harmfulPatterns) : Test(harmfulPatterns[k], s)

\* ------------------------------------------------------------ JS values
Undefined == [t |-> "undefined", v |-> <<>>]
Null == [t |-> "null", v |-> <<>>]
Num(n) == [t |-> "number", v |-> <<n>>]
Str(s) == [t |-> "string", v |-> s]
Arr(a) == [t |-> "array", v |-> a]

TypeOf(x) ==
  CASE x.t = "undefined" -> "undefined"
    [] x.t = "number" -> "number"
    [] x.t = "string" -> "string"
    [] x.t \in {"null", "array", "object"} -> "object"

\* ToBoolean
Truthy(x) ==
  CASE x.t \in {"undefined", "null"} -> FALSE
    [] x.t = "number" -> x.v # <<0>>
    [] x.t = "string" -> x.v # <<>>
    [] OTHER -> TRUE

IsArray(x) == x.t = "array"

Obj(name, elevator, slides) ==
  [t |-> "object", v |-> [name |-> name, elevator |-> elevator, slides |-> slides]]

\* property read `x.f` on a pitchData value that is not null or undefined
Get(x, f) == IF x.t = "object" THEN x.v[f] ELSE Undefined

\* ------------------------------------------------------------- validators
\* IdeaErrors with the upper length rule off by one (>= for >)
IdeaErrorsOffByOne(idea) ==
  IF ~Truthy(idea) THEN <<"Idea is required">>
  ELSE IF TypeOf(idea) # "string" THEN <<"Idea must be a string">>
  ELSE LET trimmedIdea == Trim(idea.v)
       IN (IF StrLen(trimmedIdea) = 0 THEN <<"Idea cannot be empty">>
           ELSE IF StrLen(trimmedIdea) < 10
                THEN <<"Idea must be at least 10 characters long">>
           ELSE IF StrLen(trimmedIdea) >= 2000
                THEN <<"Idea must be less than 2000 characters">>
           ELSE <<>>)
          \o (IF MatchesBlocked(trimmedIdea)
              THEN <<"Idea contains potentially harmful content">> ELSE <<>>)

\* IdeaErrors with the harmful-content violation pushed before the length one
IdeaErrorsHarmfulFirst(idea) ==
  IF ~Truthy(idea) THEN <<"Idea is required">>
  ELSE IF TypeOf(idea) # "string" THEN <<"Idea must be a string">>
  ELSE LET trimmedIdea == Trim(idea.v)
       IN (IF MatchesBlocked(trimmedIdea)
           THEN <<"Idea contains potentially harmful content">> ELSE <<>>)
          \o (IF StrLen(trimmedIdea) = 0 THEN <<"Idea cannot be empty">>
              ELSE IF StrLen(trimmedIdea) < 10
                   THEN <<"Idea must be at least 10 characters long">>
              ELSE IF StrLen(trimmedIdea) > 2000
                   THEN <<"Idea must be less than 2000 characters">>
              ELSE <<>>)

\* IdeaErrors that looks for harmful content only when the length is accepted
IdeaErrorsShortCircuit(idea) ==
  IF ~Truthy(idea) THEN <<"Idea is required">>
  ELSE IF TypeOf(idea) # "string" THEN <<"Idea must be a string">>
  ELSE LET trimmedIdea == Trim(idea.v)
       IN IF StrLen(trimmedIdea) = 0 THEN <<"Idea cannot be empty">>
          ELSE IF StrLen(trimmedIdea) < 10
               THEN <<"Idea must be at least 10 characters long">>
          ELSE IF StrLen(trimmedIdea) > 2000
               THEN <<"Idea must be less than 2000 characters">>
          ELSE IF MatchesBlocked(trimmedIdea)
               THEN <<"Idea contains potentially harmful content">>
          ELSE <<>>

\* utils/validators.js, validateCodePromptInput({ idea, pitchData })
IdeaErrors(idea) ==
  IF ~Truthy(idea) THEN <<"Idea is required">>
  ELSE IF TypeOf(idea) # "string" THEN <<"Idea must be a string">>
  ELSE LET trimmedIdea == Trim(idea.v)
           lengthErrors ==
             IF StrLen(trimmedIdea) = 0 THEN <<"Idea cannot be empty">>
             ELSE IF StrLen(trimmedIdea) < 10
                  THEN <<"Idea must be at least 10 characters long">>
             ELSE IF StrLen(trimmedIdea) > 2000
                  THEN <<"Idea must be less than 2000 characters">>
             ELSE <<>>
           harmfulErrors ==
             IF MatchesBlocked(trimmedIdea)
             THEN <<"Idea contains potentially harmful content">>
             ELSE <<>>
       IN lengthErrors \o harmfulErrors

PitchDataErrors(pitchData) ==
  IF pitchData.t \in {"null", "undefined"} THEN <<>>
  ELSE IF TypeOf(pitchData) # "object" THEN <<"Pitch data must be an object">>
  ELSE LET name == Get(pitchData, "name")
           elevator == Get(pitchData, "elevator")
           slides == Get(pitchData, "slides")
       IN (IF Truthy(name) /\ TypeOf(name) # "string"
           THEN <<"Pitch name must be a string">> ELSE <<>>)
          \o (IF Truthy(elevator) /\ TypeOf(elevator) # "string"
              THEN <<"Elevator pitch must be a string">> ELSE <<>>)
          \o (IF Truthy(slides) /\ ~IsArray(slides)
              THEN <<"Slides must be an array">> ELSE <<>>)

NoError == "null"

\* validateCodePromptInput that checks the pitch context only
validateCodePromptInputNoIdeaRules(idea, pitchData) ==
  LET errors == PitchDataErrors(pitchData)
  IN [isValid |-> Len(errors) = 0,
      error   |-> IF Len(errors) > 0 THEN errors[1] ELSE NoError,
      details |-> errors]

\* validateCodePromptInput that validates the pitch context before the idea
validateCodePromptInputPitchFirst(idea, pitchData) ==
  LET errors == PitchDataErrors(pitchData) \o IdeaErrors(idea)
  IN [isValid |-> Len(errors) = 0,
      error   |-> IF Len(errors) > 0 THEN errors[1] ELSE NoError,
      details |-> errors]

validateCodePromptInput(idea, pitchData) ==
  LET errors == IdeaErrors(idea) \o PitchDataErrors(pitchData)
  IN [isValid |-> Len(errors) = 0,
      error   |-> IF Len(errors) > 0 THEN errors[1] ELSE NoError,
      details |-> errors]

\* --------------------------------------------------------- request inputs
\* the words of the ideas posted to the routes
RouteWords == {" ", "a*9", "a*1991", "Short", "login", "<SCRIPT"}

\* all strings of at most n words of W
StringsUpTo(W, n) == UNION {[1..k -> W] : k \in 0..n}

\* request-body values of `idea`: absent, a number, or a string
IdeaValues(W, n) == {Undefined, Num(123)} \cup {Str(s) : s \in StringsUpTo(W, n)}

\* a slide record { content: "<p>login</p>"-like markup } of a pitch context
Slide == [t |-> "slide", v |-> <<"login">>]

PitchDatas ==
  {Undefined, Null, Str(<<"a">>), Arr(<<>>)}
  \cup {Obj(n, e, sl) :
          n \in {Undefined, Str(<<"Short">>), Num(123), Num(0)},
          e \in {Undefined, Str(<<"a*9", " ", "login">>), Num(1)},
          sl \in {Undefined, Str(<<"a">>), Arr(<<>>), Arr(<<Slide>>), Arr(<<Null>>)}}

\* ------------------------------------------- services/code-prompt-generator
\* String.prototype.toLowerCase: the lower-cased characters of each word
ToLowerCase(s) == [i \in 1..Len(s) |-> LowerChars(Spell(s[i]).chars)]

\* String.prototype.includes(kw) on lower-cased text
Includes(lowerText, kw) ==
  \E i \in 1..Len(lowerText) :
     \E p \in 1..Len(lowerText[i]) : OccursAt(kw, lowerText[i], p)

\* RegExp test of one alternative x or x.*y on the lower-cased text
TestAlt(alt, lowerText) ==
  IF Len(alt) = 1 THEN Includes(lowerText, alt[1])
  ELSE \E i \in 1..Len(lowerText), j \in 1..Len(lowerText) :
         \E p \in 1..Len(lowerText[i]), q \in 1..Len(lowerText[j]) :
              /\ OccursAt(alt[1], lowerText[i], p)
              /\ OccursAt(alt[2], lowerText[j], q)
              /\ i < j \/ (i = j /\ q >= p + Len(alt[1]))

featurePatterns ==
  <<
    [pattern |-> {<<<<"u","s","e","r">>, <<"r","e","g","i","s","t","r","a","t","i","o","n">>>>,
                  <<<<"s","i","g","n">>, <<"u","p">>>>,
                  <<<<"c","r","e","a","t","e">>, <<"a","c","c","o","u","n","t">>>>},
     feature |-> "User Registration & Authentication"],
    [pattern |-> {<<<<"l","o","g","i","n">>>>,
                  <<<<"s","i","g","n">>, <<"i","n">>>>,
                  <<<<"a","u","t","h","e","n","t","i","c","a","t","e">>>>},
     feature |-> "User Login System"],
    [pattern |-> {<<<<"p","r","o","f","i","l","e">>>>,
                  <<<<"d","a","s","h","b","o","a","r","d">>>>},
     feature |-> "User Dashboard & Profile Management"],
    [pattern |-> {<<<<"s","e","a","r","c","h">>>>,
                  <<<<"f","i","n","d">>>>,
                  <<<<"d","i","s","c","o","v","e","r">>>>},
     feature |-> "Search & Discovery"],
    [pattern |-> {<<<<"c","h","a","t">>>>,
                  <<<<"m","e","s","s","a","g","e">>>>,
                  <<<<"c","o","m","m","u","n","i","c","a","t","i","o","n">>>>},
     feature |-> "Real-time Messaging"],
    [pattern |-> {<<<<"p","a","y","m","e","n","t">>>>,
                  <<<<"p","a","y">>>>,
                  <<<<"s","u","b","s","c","r","i","p","t","i","o","n">>>>,
                  <<<<"b","i","l","l","i","n","g">>>>},
     feature |-> "Payment Processing"],
    [pattern |-> {<<<<"u","p","l","o","a","d">>>>,
                  <<<<"s","h","a","r","e">>>>,
                  <<<<"p","o","s","t">>>>},
     feature |-> "Content Upload & Sharing"],
    [pattern |-> {<<<<"n","o","t","i","f","i","c","a","t","i","o","n">>>>,
                  <<<<"a","l","e","r","t">>>>},
     feature |-> "Notification System"],
    [pattern |-> {<<<<"a","d","m","i","n">>>>,
                  <<<<"m","a","n","a","g","e","m","e","n","t">>>>},
     feature |-> "Admin Panel"],
    [pattern |-> {<<<<"m","o","b","i","l","e">>>>,
                  <<<<"r","e","s","p","o","n","s","i","v","e">>>>},
     feature |-> "Mobile-Responsive Design"],
    [pattern |-> {<<<<"a","p","i">>>>,
                  <<<<"i","n","t","e","g","r","a","t","i","o","n">>>>},
     feature |-> "RESTful API"],
    [pattern |-> {<<<<"s","o","c","i","a","l">>>>,
                  <<<<"n","e","t","w","o","r","k">>>>},
     feature |-> "Social Features"],
    [pattern |-> {<<<<"a","n","a","l","y","t","i","c","s">>>>,
                  <<<<"t","r","a","c","k","i","n","g">>>>},
     feature |-> "Analytics & Tracking"],
    [pattern |-> {<<<<"r","e","v","i","e","w">>>>,
                  <<<<"r","a","t","i","n","g">>>>,
                  <<<<"f","e","e","d","b","a","c","k">>>>},
     feature |-> "Review & Rating System"]
  >>

\* extractFeaturesFromIdea that stops at the first matching family
extractFeaturesFromIdeaFirstMatch(ideaText) ==
  LET lowerIdea == ToLowerCase(ideaText)
      matched == {k \in 1..Len(featurePatterns) :
                    \E alt \in featurePatterns[k].pattern : TestAlt(alt, lowerIdea)}
  IN IF matched = {}
     THEN <<"Core Application Logic", "User Interface", "Data Management">>
     ELSE <<featurePatterns[CHOOSE m \in matched : \A n \in matched : m <= n].feature>>

extractFeaturesFromIdea(ideaText) ==
  LET lowerIdea == ToLowerCase(ideaText)
      matched == {k \in 1..Len(featurePatterns) :
                    \E alt \in featurePatterns[k].pattern : TestAlt(alt, lowerIdea)}
      features == [k \in 1..Cardinality(matched) |->
                    featurePatterns[CHOOSE m \in matched :
                       Cardinality({n \in matched : n < m}) = k - 1].feature]
  IN IF Len(features) = 0
     THEN <<"Core Application Logic", "User Interface", "Data Management">>
     ELSE features

baseStack == <<"MongoDB", "Express.js", "React", "Node.js", "Tailwind CSS">>

\* inferTechStack without the keyword 'photo' of the upload family
inferTechStackNoPhoto(ideaText, content) ==
  LET analysisText == ToLowerCase(ideaText \o <<" ">> \o content)
      has(kws) == \E kw \in kws : Includes(analysisText, kw)
      additionalTech ==
        (IF has({<<"l","o","g","i","n">>, <<"u","s","e","r">>, <<"a","c","c","o","u","n","t">>}) THEN <<"JWT", "bcrypt">> ELSE <<>>)
        \o (IF has({<<"p","a","y">>, <<"s","u","b","s","c","r","i","p","t","i","o","n">>, <<"p","u","r","c","h","a","s","e">>}) THEN <<"Stripe">> ELSE <<>>)
        \o (IF has({<<"c","h","a","t">>, <<"l","i","v","e">>, <<"r","e","a","l","-","t","i","m","e">>}) THEN <<"Socket.io">> ELSE <<>>)
        \o (IF has({<<"u","p","l","o","a","d">>, <<"i","m","a","g","e">>}) THEN <<"Multer", "Cloudinary">> ELSE <<>>)
        \o (IF has({<<"e","m","a","i","l">>, <<"n","o","t","i","f","i","c","a","t","i","o","n">>}) THEN <<"Nodemailer">> ELSE <<>>)
        \o <<"Swagger/OpenAPI">>
        \o <<"Vite", "ESLint", "Prettier">>
  IN baseStack \o additionalTech

inferTechStack(ideaText, content) ==
  LET analysisText == ToLowerCase(ideaText \o <<" ">> \o content)
      has(kws) == \E kw \in kws : Includes(analysisText, kw)
      additionalTech ==
        (IF has({<<"l","o","g","i","n">>, <<"u","s","e","r">>, <<"a","c","c","o","u","n","t">>}) THEN <<"JWT", "bcrypt">> ELSE <<>>)
        \o (IF has({<<"p","a","y">>, <<"s","u","b","s","c","r","i","p","t","i","o","n">>, <<"p","u","r","c","h","a","s","e">>}) THEN <<"Stripe">> ELSE <<>>)
        \o (IF has({<<"c","h","a","t">>, <<"l","i","v","e">>, <<"r","e","a","l","-","t","i","m","e">>}) THEN <<"Socket.io">> ELSE <<>>)
        \o (IF has({<<"u","p","l","o","a","d">>, <<"p","h","o","t","o">>, <<"i","m","a","g","e">>}) THEN <<"Multer", "Cloudinary">> ELSE <<>>)
        \o (IF has({<<"e","m","a","i","l">>, <<"n","o","t","i","f","i","c","a","t","i","o","n">>}) THEN <<"Nodemailer">> ELSE <<>>)
        \o <<"Swagger/OpenAPI">>
        \o <<"Vite", "ESLint", "Prettier">>
  IN baseStack \o additionalTech

\* [...new Set(seq)]: first occurrences, in order
RECURSIVE Dedupe(_)
Dedupe(seq) ==
  IF seq = <<>> THEN <<>>
  ELSE LET init == Dedupe(SubSeq(seq, 1, Len(seq) - 1))
           last == seq[Len(seq)]
       IN IF \E i \in 1..Len(init) : init[i] = last THEN init ELSE Append(init, last)

extractFeatures(content, ideaText) ==
  LET features == extractFeaturesFromIdea(ideaText)
      lowerContent == ToLowerCase(content)
      contentFeatures ==
        (IF Includes(lowerContent, <<"w","e","b","s","o","c","k","e","t">>) \/ Includes(lowerContent, <<"s","o","c","k","e","t",".","i","o">>)
         THEN <<"Real-time Features">> ELSE <<>>)
        \o (IF Includes(lowerContent, <<"s","t","r","i","p","e">>) \/ Includes(lowerContent, <<"p","a","y","m","e","n","t">>)
            THEN <<"Payment Integration">> ELSE <<>>)
        \o (IF Includes(lowerContent, <<"j","w","t">>) \/ Includes(lowerContent, <<"a","u","t","h","e","n","t","i","c","a","t","i","o","n">>)
            THEN <<"Authentication System">> ELSE <<>>)
  IN Dedupe(features \o contentFeatures)

\* String.prototype.split('.') : the pieces between the '.' words
RECURSIVE SplitDots(_, _)
SplitDots(s, cur) ==
  IF s = <<>> THEN <<cur>>
  ELSE IF Head(s) = "." THEN <<cur>> \o SplitDots(Tail(s), <<>>)
  ELSE SplitDots(Tail(s), Append(cur, Head(s)))

RECURSIVE NonBlank(_)
NonBlank(pieces) ==
  IF pieces = <<>> THEN <<>>
  ELSE (IF StrLen(Trim(Head(pieces))) > 0 THEN <<Head(pieces)>> ELSE <<>>)
       \o NonBlank(Tail(pieces))

\* generateSummary(idea, pitchData); undefined + '.' is the string "undefined."
generateSummary(ideaText, pd) ==
  IF pd.t \notin {"null", "undefined"} /\ Truthy(Get(pd, "elevator"))
  THEN Get(pd, "elevator")
  ELSE LET sentences == NonBlank(SplitDots(ideaText, <<>>))
       IN IF sentences # <<>> THEN Str(Trim(sentences[1]) \o <<".">>)
          ELSE Str(<<"undefined", ".">>)

generateDefaultFileStructure == "default MERN file structure"

\* `${x}` inside a template literal
Interpolate(x) ==
  CASE x.t = "string" -> x.v
    [] x.t = "number" -> <<"<number>">>
    [] x.t = "undefined" -> <<"undefined">>
    [] x.t = "null" -> <<"null">>
    [] OTHER -> <<"[object Object]">>

\* features.map(f => prefix + f).join('\n')
RECURSIVE BulletList(_, _)
BulletList(prefix, items) ==
  IF items = <<>> THEN <<>>
  ELSE <<prefix, Head(items)>>
       \o (IF Len(items) > 1 THEN <<"\n">> ELSE <<>>)
       \o BulletList(prefix, Tail(items))

createComprehensiveTemplate(ideaText, pd, techStack, features, summary) ==
  LET companyName ==
        IF pd.t \notin {"null", "undefined"} /\ Truthy(Get(pd, "name"))
        THEN Get(pd, "name") ELSE Str(<<"YourStartup">>)
  IN Str(<<"# ">> \o Interpolate(companyName)
         \o <<" - Complete MERN Stack Development Guide ## Project Overview">>
         \o Interpolate(summary)
         \o <<"**Original Idea:** ">> \o ideaText
         \o <<"### Core Features">> \o BulletList("- ", features)
         \o <<"### Technology Stack">> \o BulletList("- ", techStack)
         \o <<"## Detailed Development Instructions ... ### 4. Integration & Features">>
         \o BulletList("- Implement ", features)
         \o <<"### 5. Environment Setup ... production-ready code.">>)

generateIntelligentTemplate(ideaText, pd) ==
  LET techStack == inferTechStack(ideaText, <<>>)
      features == extractFeaturesFromIdea(ideaText)
      summary == generateSummary(ideaText, pd)
  IN [prompt |-> createComprehensiveTemplate(ideaText, pd, techStack, features, summary),
      techStack |-> Arr(techStack),
      fileStructure |-> generateDefaultFileStructure,
      summary |-> summary,
      features |-> Arr(features)]


\* ------------------------------------------------------ the remote service
\* What the POST to api.deepseek.com/v1/chat/completions can come back with.
\* A failure is an axios error: with a response (an HTTP status), or with a
\* request and no response (network down, timeout); "malformed" is a 200
\* whose body has no choices[0].message.content.
RemoteFailures ==
  {[kind |-> "auth",      status |-> 401, body |-> Undefined],
   [kind |-> "quota",     status |-> 402, body |-> Undefined],
   [kind |-> "rateLimit", status |-> 429, body |-> Undefined],
   [kind |-> "server",    status |-> 500, body |-> Undefined],
   [kind |-> "network",   status |-> 0,   body |-> Undefined],
   [kind |-> "timeout",   status |-> 0,   body |-> Undefined],
   [kind |-> "malformed", status |-> 200, body |-> Undefined]}

Ok(body) == [kind |-> "ok", status |-> 200, body |-> body]

NotJson == [t |-> "notjson", v |-> <<>>]

SlideHtml == Str(<<"<section>">>)

\* message.content of a pitch answer, after JSON.parse: unparseable text, null,
\* or an object whose name, elevator and slides may be absent or ill-typed
PitchNames == {Undefined, Num(123), Str(<<>>), Str(<<"Acme">>)}
PitchElevators == {Undefined, Num(1), Str(<<>>), Str(<<"We", "sell", "anvils">>)}
PitchSlides ==
  {Undefined, Str(<<"a">>)}
  \cup {Arr([i \in 1..k |-> x]) : k \in 0..MaxSlides, x \in {SlideHtml, Num(7)}}

PitchContents ==
  {NotJson, Null}
  \cup {Obj(n, Str(<<"We", "sell", "anvils">>), Arr(<<SlideHtml, SlideHtml, SlideHtml>>)) :
          n \in PitchNames}
  \cup {Obj(Str(<<"Acme">>), e, Arr(<<SlideHtml, SlideHtml, SlideHtml>>)) :
          e \in PitchElevators}
  \cup {Obj(Str(<<"Acme">>), Str(<<"We", "sell", "anvils">>), sl) : sl \in PitchSlides}
  \cup {Obj(Undefined, Undefined, Undefined)}

\* What JSON.parse makes of the {...} span of a code-prompt answer: nothing
\* to parse ("none"), a SyntaxError ("invalid"), or an object
NoJson == [t |-> "none", v |-> <<>>]
BadJson == [t |-> "invalid", v |-> <<>>]
PromptJson(prompt, techStack, features) ==
  [t |-> "object",
   v |-> [prompt |-> prompt, techStack |-> techStack, fileStructure |-> Undefined,
          summary |-> Undefined, features |-> features]]

JsonWords == {JsonFull, JsonNoFeatures, JsonStringTechStack, JsonNoPrompt,
              JsonNoTechStack, JsonDuplicates}

\* message.content of a code-prompt answer: prose, prose with braces, a JSON
\* object alone, with prose around it, and with braces in the prose after it
PromptContents ==
  {<<"a*9">>,
   <<"stripe", " ", "login">>,
   <<"a*9", "{", " ", "}">>,
   <<"{", "a", "}">>,
   <<JsonFull>>,
   <<"a*9", " ", JsonFull, " ", "a*9">>,
   <<JsonFull, " ", "{", "a", "}">>,
   <<JsonNoFeatures>>,
   <<JsonStringTechStack>>,
   <<JsonNoPrompt>>,
   <<JsonNoTechStack>>,
   <<JsonDuplicates>>}

\* ------------------------------------------------------ services/deepseek
Threw(message) == [kind |-> "threw", message |-> message, value |-> Undefined]
Returned(value) == [kind |-> "returned", message |-> "", value |-> value]

\* the module's start-up code: the client exists only with a real key
deepseekClientFor(e) ==
  IF e.DEEPSEEK_API_KEY \in {"unset", "placeholder"} THEN "null" ELSE "client"

\* StructureCheck without the upper bound on the slide count
StructureCheckNoUpperBound(result) ==
  IF result.t = "notjson" THEN "SyntaxError"
  ELSE IF result.t \in {"null", "undefined"} THEN "TypeError"
  ELSE IF \/ ~Truthy(Get(result, "name"))
          \/ ~Truthy(Get(result, "elevator"))
          \/ ~Truthy(Get(result, "slides"))
          \/ ~IsArray(Get(result, "slides"))
       THEN "Invalid response structure from DeepSeek"
  ELSE IF Len(Get(result, "slides").v) < 3
       THEN "Invalid number of slides (should be 3-5)"
  ELSE "ok"

\* the structural checks on the parsed answer; a throw here lands in the
\* catch below like any other
StructureCheck(result) ==
  IF result.t = "notjson" THEN "SyntaxError"
  ELSE IF result.t \in {"null", "undefined"} THEN "TypeError"
  ELSE IF \/ ~Truthy(Get(result, "name"))
          \/ ~Truthy(Get(result, "elevator"))
          \/ ~Truthy(Get(result, "slides"))
          \/ ~IsArray(Get(result, "slides"))
       THEN "Invalid response structure from DeepSeek"
  ELSE IF Len(Get(result, "slides").v) < 3 \/ Len(Get(result, "slides").v) > 5
       THEN "Invalid number of slides (should be 3-5)"
  ELSE "ok"

\* generatePitch that answers a connectivity failure with a canned pitch
generatePitchWithFallback(remote) ==
  IF remote.kind \in {"network", "timeout"}
  THEN Returned(Obj(Str(<<"YourStartup">>), Str(<<"a*9">>),
                    Arr(<<SlideHtml, SlideHtml, SlideHtml, SlideHtml>>)))
  ELSE Threw("DeepSeek API error")

\* generatePitch from the point where the awaited post settles with `remote`
generatePitchAfterPost(remote) ==
  IF remote.kind = "ok"
  THEN LET verdict == StructureCheck(remote.body)
       IN CASE verdict = "ok" -> Returned(remote.body)
            [] verdict = "SyntaxError" ->
                 Threw("Failed to parse DeepSeek response. The AI may have returned invalid JSON.")
            [] verdict = "TypeError" ->
                 Threw("Failed to generate pitch: TypeError")
            [] verdict = "Invalid response structure from DeepSeek" ->
                 Threw("Failed to generate pitch: Invalid response structure from DeepSeek")
            [] OTHER ->
                 Threw("Failed to generate pitch: Invalid number of slides (should be 3-5)")
  ELSE IF remote.kind = "malformed"
  THEN Threw("Failed to generate pitch: TypeError")
  ELSE IF remote.kind \in {"network", "timeout"}
  THEN Threw("No response from DeepSeek API. Please check your internet connection.")
  ELSE IF remote.status = 401
  THEN Threw("Invalid DeepSeek API key. Please check your configuration.")
  ELSE IF remote.status = 429
  THEN Threw("DeepSeek API rate limit exceeded. Please try again later.")
  ELSE IF remote.status = 402
  THEN Threw("DeepSeek API quota exceeded. Please check your billing.")
  ELSE Threw("DeepSeek API error")

\* --------------------------------- services/code-prompt-generator, the flow
\* createUserPrompt reads slide.content of every slide: a null slide throws
createUserPromptThrows(pd) ==
  /\ pd.t = "object"
  /\ Truthy(Get(pd, "slides"))
  /\ IsArray(Get(pd, "slides"))
  /\ \E i \in 1..Len(Get(pd, "slides").v) : Get(pd, "slides").v[i] = Null

Or(x, y) == IF Truthy(x) THEN x ELSE y

HasChar(w, c) == \E k \in 1..Len(Spell(w).chars) : Spell(w).chars[k] = c

\* content.match(/\{[\s\S]*\}/): the span from the first '{' to the last '}'
\* of the text, <<>> for null.  A word holding '{' begins with it and a word
\* holding '}' ends with it, so the span is made of whole words.
MatchBraces(content) ==
  LET opens == {i \in 1..Len(content) : HasChar(content[i], "{")}
      closes == {j \in 1..Len(content) : HasChar(content[j], "}")}
  IN IF opens = {} \/ closes = {} THEN <<>>
     ELSE LET first == CHOOSE i \in opens : \A k \in opens : i <= k
              last == CHOOSE j \in closes : \A k \in closes : k <= j
          IN IF first <= last THEN SubSeq(content, first, last) ELSE <<>>

\* JSON.parse(jsonMatch[0]): one object literal parses to its object, braces
\* around white space to the empty object, anything else is a SyntaxError
JSONparse(span) ==
  IF Len(span) = 1 /\ span[1] \in JsonWords
  THEN CASE span[1] = JsonFull ->
              PromptJson(Str(<<"Build it">>), Arr(<<"React", "Stripe">>), Arr(<<"Billing">>))
         [] span[1] = JsonNoFeatures ->
              PromptJson(Str(<<"Build it">>), Arr(<<"React">>), Undefined)
         [] span[1] = JsonStringTechStack ->
              PromptJson(Str(<<"Build it">>), Str(<<"React">>), Undefined)
         [] span[1] = JsonNoPrompt ->
              PromptJson(Undefined, Arr(<<"React">>), Undefined)
         [] span[1] = JsonNoTechStack ->
              PromptJson(Str(<<"Build it">>), Undefined, Undefined)
         [] span[1] = JsonDuplicates ->
              PromptJson(Str(<<"Build it">>), Arr(<<"React", "React">>),
                         Arr(<<"Billing", "Billing">>))
  ELSE IF /\ Len(span) >= 2
          /\ span[1] = "{"
          /\ span[Len(span)] = "}"
          /\ \A k \in 2..Len(span) - 1 : IsSpace(span[k])
  THEN PromptJson(Undefined, Undefined, Undefined)
  ELSE BadJson

\* parseStructuredResponse whose fallback takes the features of the idea only
parseStructuredResponseIdeaFeatures(content, ideaText, pd) ==
  LET jsonMatch == MatchBraces(content)
      parsedData == IF jsonMatch = <<>> THEN NoJson ELSE JSONparse(jsonMatch)
  IN IF /\ parsedData.t = "object"
        /\ Truthy(parsedData.v.prompt)
        /\ Truthy(parsedData.v.techStack)
     THEN [prompt |-> parsedData.v.prompt,
           techStack |-> IF IsArray(parsedData.v.techStack)
                         THEN parsedData.v.techStack ELSE Arr(<<>>),
           fileStructure |-> Or(parsedData.v.fileStructure, generateDefaultFileStructure),
           summary |-> Or(parsedData.v.summary, generateSummary(ideaText, pd)),
           features |-> Or(parsedData.v.features, Arr(<<>>))]
     ELSE [prompt |-> Str(content),
           techStack |-> Arr(inferTechStack(ideaText, content)),
           fileStructure |-> generateDefaultFileStructure,
           summary |-> generateSummary(ideaText, pd),
           features |-> Arr(extractFeaturesFromIdea(ideaText))]

\* a SyntaxError of JSON.parse lands in the catch, which returns what the
\* fall-through after the if returns
parseStructuredResponse(content, ideaText, pd) ==
  LET jsonMatch == MatchBraces(content)
      parsedData == IF jsonMatch = <<>> THEN NoJson ELSE JSONparse(jsonMatch)
  IN IF /\ parsedData.t = "object"
        /\ Truthy(parsedData.v.prompt)
        /\ Truthy(parsedData.v.techStack)
     THEN [prompt |-> parsedData.v.prompt,
           techStack |-> IF IsArray(parsedData.v.techStack)
                         THEN parsedData.v.techStack ELSE Arr(<<>>),
           fileStructure |-> Or(parsedData.v.fileStructure, generateDefaultFileStructure),
           summary |-> Or(parsedData.v.summary, generateSummary(ideaText, pd)),
           features |-> Or(parsedData.v.features, Arr(<<>>))]
     ELSE [prompt |-> Str(content),
           techStack |-> Arr(inferTechStack(ideaText, content)),
           fileStructure |-> generateDefaultFileStructure,
           summary |-> generateSummary(ideaText, pd),
           features |-> Arr(extractFeatures(content, ideaText))]

Prompted(via, data) == [kind |-> "returned", via |-> via, message |-> "", data |-> data]
PromptThrew(message) == [kind |-> "threw", via |-> "none", message |-> message, data |-> Undefined]

\* generateDynamicPrompt without its check of the key
generateDynamicPromptNoKeyCheck(e, pd) == createUserPromptThrows(pd)

\* generateDynamicPrompt up to its post: it throws when the key is unset,
\* and when building the user prompt throws
generateDynamicPromptThrowsEarly(e, pd) ==
  e.DEEPSEEK_API_KEY = "unset" \/ createUserPromptThrows(pd)

\* templateFallback that reads pitchData.name without the optional chaining
templateFallbackNoOptionalChaining(ideaArg, pd) ==
  IF ideaArg.t # "string" \/ pd.t \in {"null", "undefined"} THEN PromptThrew("TypeError")
  ELSE Prompted("template", generateIntelligentTemplate(ideaArg.v, pd))

\* the catch of generateEnhancedCodePrompt: the template is built from the
\* idea; toLowerCase and split exist on strings only
templateFallback(ideaArg, pd) ==
  IF ideaArg.t # "string" THEN PromptThrew("TypeError")
  ELSE Prompted("template", generateIntelligentTemplate(ideaArg.v, pd))

\* generateEnhancedCodePrompt whose catch absorbs connectivity failures only
generateEnhancedRethrows(remote, ideaArg, pd) ==
  IF remote.kind = "ok"
  THEN Prompted("remote", parseStructuredResponse(remote.body.v, ideaArg.v, pd))
  ELSE IF remote.kind \in {"network", "timeout"}
  THEN templateFallback(ideaArg, pd)
  ELSE PromptThrew("Request failed")

\* generateEnhancedCodePrompt from the point where the awaited post settles:
\* every rejection and every throw of generateDynamicPrompt lands in its catch
generateEnhancedAfterPost(remote, ideaArg, pd) ==
  IF remote.kind = "ok"
  THEN Prompted("remote", parseStructuredResponse(remote.body.v, ideaArg.v, pd))
  ELSE templateFallback(ideaArg, pd)

\* the route's answer to what generateEnhancedCodePrompt did
codePromptResponse(outcome) ==
  IF outcome.kind = "returned"
  THEN [status |-> 200, error |-> "", message |-> ""]
  ELSE [status |-> 500, error |-> "Error", message |-> outcome.message]

\* ------------------------------------------------------------------ state
VARIABLES
  env,               \* process.env: which variables are set
  deepseekClient,    \* services/deepseek.js module state: "null" or "client"
  dbInitialized,     \* routes/generate.js module state
  pc,                \* where the request in progress stands
  endpoint,          \* the route that received it
  idea, pitchData,   \* its body
  validationResult,  \* the validator's verdict (code-prompt route)
  remoteCalls,       \* posts to api.deepseek.com made for this request
  remoteResult,      \* what the post came back with
  buildCalls,        \* calls of generateBuildPrompt made for this request
  pitchOutcome,      \* what generatePitch did
  promptOutcome,     \* what generateEnhancedCodePrompt did
  saved,             \* the pitch of this request was stored
  res,               \* the HTTP response
  buildArg,          \* the idea handed to generateBuildPrompt
  persistence,       \* what the database did for this request
  firstOutcome,      \* what an earlier call with the same arguments returned
  initDBpc,          \* where each of the concurrent requests stands in initDB
  connectCalls,      \* calls of connectDB made since the module was loaded
  deck,              \* PitchResult: slides.length
  currentSlide,      \* PitchResult: the index of the slide on show
  clicks             \* PitchResult: the last clicks, each with the index it found

vars == <<env, deepseekClient, dbInitialized, pc, endpoint, idea, pitchData,
          validationResult, remoteCalls, remoteResult, buildCalls, pitchOutcome,
          promptOutcome, saved, res, buildArg, persistence, firstOutcome,
          initDBpc, connectCalls, deck, currentSlide, clicks>>

\* the state of the parts of the program a specification leaves alone
sideVars == <<firstOutcome, initDBpc, connectCalls, deck, currentSlide, clicks>>

SideIdle ==
  /\ firstOutcome = [kind |-> "none", message |-> ""]
  /\ initDBpc = <<>>
  /\ connectCalls = 0
  /\ deck = 0
  /\ currentSlide = 0
  /\ clicks = <<>>

NoValidation == [isValid |-> FALSE, error |-> "none", details |-> <<>>]
NoOutcome == [kind |-> "none", message |-> ""]
NoRemote == [kind |-> "none", status |-> 0, body |-> Undefined]
NoResponse == [status |-> 0, error |-> "", message |-> ""]

Respond(status, error, message) == [status |-> status, error |-> error, message |-> message]

Envs ==
  [DEEPSEEK_API_KEY : {"unset", "placeholder", "set"},
   OPENAI_API_KEY : {"unset", "set"},
   MONGODB_URI : {"unset", "set"}]

\* pitch contexts posted to the routes
RoutePitchDatas ==
  {Undefined, Null, Str(<<"a">>),
   Obj(Str(<<"Short">>), Str(<<"a*9", " ", "login">>), Arr(<<Slide>>)),
   Obj(Num(0), Undefined, Arr(<<Null>>)),
   Obj(Num(123), Undefined, Undefined)}

Idle ==
  /\ pc = "idle"
  /\ endpoint = "none"
  /\ idea = Undefined
  /\ pitchData = Undefined
  /\ validationResult = NoValidation
  /\ remoteCalls = 0
  /\ remoteResult = NoRemote
  /\ buildCalls = 0
  /\ pitchOutcome = NoOutcome
  /\ promptOutcome = NoOutcome
  /\ saved = FALSE
  /\ res = NoResponse
  /\ buildArg = Undefined
  /\ persistence = "none"
  /\ SideIdle

Init ==
  /\ env \in Envs
  /\ deepseekClient = deepseekClientFor(env)
  /\ dbInitialized = FALSE
  /\ Idle

\* ----------------------------------------------------- routes/generate.js
\* POST /generate up to its first await
PostGenerate(i) ==
  /\ pc = "idle"
  /\ UNCHANGED sideVars
  /\ UNCHANGED <<buildArg, persistence>>
  /\ endpoint' = "generate"
  /\ idea' = i
  /\ UNCHANGED <<env, deepseekClient, dbInitialized, pitchData, validationResult,
                 remoteResult, buildCalls, promptOutcome, saved>>
  /\ IF ~Truthy(i) \/ TypeOf(i) # "string"
     THEN /\ res' = Respond(400, "Invalid request",
                            "Please provide a valid startup idea description.")
          /\ pc' = "responded"
          /\ UNCHANGED <<remoteCalls, pitchOutcome>>
     ELSE IF StrLen(Trim(i.v)) < 10
     THEN /\ res' = Respond(400, "Idea too short",
                            "Please provide a more detailed description of your startup idea (at least 10 characters).")
          /\ pc' = "responded"
          /\ UNCHANGED <<remoteCalls, pitchOutcome>>
     ELSE IF StrLen(i.v) > 2000
     THEN /\ res' = Respond(400, "Idea too long",
                            "Please keep your startup idea description under 2000 characters.")
          /\ pc' = "responded"
          /\ UNCHANGED <<remoteCalls, pitchOutcome>>
     ELSE IF env.OPENAI_API_KEY = "unset"
     THEN /\ res' = Respond(500, "Configuration error",
                            "OpenAI API key is not configured. Please check server configuration.")
          /\ pc' = "responded"
          /\ UNCHANGED <<remoteCalls, pitchOutcome>>
     ELSE IF deepseekClient = "null"
     THEN \* generatePitch throws at once; the route's catch answers
          /\ pitchOutcome' = Threw("DeepSeek is not configured. Please set a valid DEEPSEEK_API_KEY in your .env file.")
          /\ res' = Respond(500, "Failed to generate pitch", pitchOutcome'.message)
          /\ pc' = "responded"
          /\ UNCHANGED remoteCalls
     ELSE \* deepseekClient.post(...) is issued and awaited
          /\ remoteCalls' = remoteCalls + 1
          /\ pc' = "awaitPitch"
          /\ UNCHANGED <<pitchOutcome, res>>

\* the post settles; generatePitch returns or throws
PitchRemoteReturns(remote) ==
  /\ pc = "awaitPitch"
  /\ UNCHANGED sideVars
  /\ UNCHANGED <<buildArg, persistence>>
  /\ remoteResult' = remote
  /\ pitchOutcome' = generatePitchAfterPost(remote)
  /\ IF pitchOutcome'.kind = "threw"
     THEN /\ res' = Respond(500, "Failed to generate pitch", pitchOutcome'.message)
          /\ pc' = "responded"
     ELSE /\ pc' = "persist"
          /\ UNCHANGED res
  /\ UNCHANGED <<env, deepseekClient, dbInitialized, endpoint, idea, pitchData,
                 validationResult, remoteCalls, buildCalls, promptOutcome, saved>>

\* Persist whose database failure reaches the route's outer catch
PersistFailureAnswers500(db) ==
  /\ pc = "persist"
  /\ UNCHANGED <<firstOutcome, initDBpc, deck, currentSlide, clicks>>
  /\ UNCHANGED buildArg
  /\ connectCalls' = IF dbInitialized THEN connectCalls ELSE connectCalls + 1
  /\ dbInitialized' = TRUE
  /\ db = "absent" <=> env.MONGODB_URI = "unset"
  /\ db = "connectFailed" => ~dbInitialized
  /\ persistence' = db
  /\ saved' = (db = "saved")
  /\ res' = IF db \in {"connectFailed", "saveFailed"}
            THEN Respond(500, "Failed to generate pitch", "database error")
            ELSE Respond(200, "", "")
  /\ pc' = "responded"
  /\ UNCHANGED <<env, deepseekClient, endpoint, idea, pitchData, validationResult,
                 remoteCalls, remoteResult, buildCalls, pitchOutcome, promptOutcome>>

\* initDB, the optional save and the answer.  db is what the database did:
\* "absent" (no MONGODB_URI: connectDB returns null, nothing is saved),
\* "connectFailed" (connectDB caught the error and returned null; the save then
\* rejects), "saveFailed" (save rejected) or "saved"; a rejection lands in the
\* inner catch and is only logged
Persist(db) ==
  /\ pc = "persist"
  /\ UNCHANGED <<firstOutcome, initDBpc, deck, currentSlide, clicks>>
  /\ UNCHANGED buildArg
  /\ connectCalls' = IF dbInitialized THEN connectCalls ELSE connectCalls + 1
  /\ dbInitialized' = TRUE
  /\ db = "absent" <=> env.MONGODB_URI = "unset"
  /\ db = "connectFailed" => ~dbInitialized
  /\ persistence' = db
  /\ saved' = (db = "saved")
  /\ res' = Respond(200, "", "")
  /\ pc' = "responded"
  /\ UNCHANGED <<env, deepseekClient, endpoint, idea, pitchData, validationResult,
                 remoteCalls, remoteResult, buildCalls, pitchOutcome, promptOutcome>>

\* -------------------------------------------------- routes/code-prompt.js
\* POST /code-prompt up to its first await
PostCodePrompt(i, pd) ==
  /\ pc = "idle"
  /\ UNCHANGED sideVars
  /\ UNCHANGED <<buildArg, persistence>>
  /\ endpoint' = "code-prompt"
  /\ idea' = i
  /\ pitchData' = pd
  /\ validationResult' = validateCodePromptInput(i, pd)
  /\ UNCHANGED <<env, deepseekClient, dbInitialized, remoteResult, buildCalls,
                 pitchOutcome, saved>>
  /\ IF ~validationResult'.isValid
     THEN /\ res' = Respond(400, "Validation failed", validationResult'.error)
          /\ pc' = "responded"
          /\ UNCHANGED <<remoteCalls, promptOutcome>>
     ELSE IF generateDynamicPromptThrowsEarly(env, Or(pd, Null))
     THEN \* generateDynamicPrompt throws before posting: the template answers
          /\ promptOutcome' = templateFallback(Str(Trim(i.v)), Or(pd, Null))
          /\ res' = codePromptResponse(promptOutcome')
          /\ pc' = "responded"
          /\ UNCHANGED remoteCalls
     ELSE \* axios.post(...) is issued and awaited
          /\ remoteCalls' = remoteCalls + 1
          /\ pc' = "awaitPrompt"
          /\ UNCHANGED <<promptOutcome, res>>

\* PromptRemoteReturns that posts once more after a failure
PromptRemoteReturnsRetry(remote) ==
  /\ pc = "awaitPrompt"
  /\ UNCHANGED sideVars
  /\ UNCHANGED <<buildArg, persistence>>
  /\ remoteResult' = remote
  /\ IF remote.kind # "ok" /\ remoteCalls < 2
     THEN /\ remoteCalls' = remoteCalls + 1
          /\ UNCHANGED <<promptOutcome, res, pc>>
     ELSE /\ promptOutcome' = generateEnhancedAfterPost(remote, Str(Trim(idea.v)), Or(pitchData, Null))
          /\ res' = codePromptResponse(promptOutcome')
          /\ pc' = "responded"
          /\ UNCHANGED remoteCalls
  /\ UNCHANGED <<env, deepseekClient, dbInitialized, endpoint, idea, pitchData,
                 validationResult, buildCalls, pitchOutcome, saved>>

\* the post settles; generateEnhancedCodePrompt returns
PromptRemoteReturns(remote) ==
  /\ pc = "awaitPrompt"
  /\ UNCHANGED sideVars
  /\ UNCHANGED <<buildArg, persistence>>
  /\ remoteResult' = remote
  /\ promptOutcome' = generateEnhancedAfterPost(remote, Str(Trim(idea.v)), Or(pitchData, Null))
  /\ res' = codePromptResponse(promptOutcome')
  /\ pc' = "responded"
  /\ UNCHANGED <<env, deepseekClient, dbInitialized, endpoint, idea, pitchData,
                 validationResult, remoteCalls, buildCalls, pitchOutcome, saved>>

\* --------------------------------------------------- routes/buildprompt.js
\* ideas posted to /buildprompt: trimmed lengths 0, 1, 5, 9, 10, 500, 501 and more
BuildWords == {" ", "a", "a*9", "a*491", "a*492", "Short"}

\* the route with the upper limit of the length off by one
PostBuildPromptOffByOne(i, pd) ==
  /\ pc = "idle"
  /\ UNCHANGED sideVars
  /\ UNCHANGED persistence
  /\ endpoint' = "buildprompt"
  /\ idea' = i
  /\ pitchData' = pd
  /\ UNCHANGED <<env, deepseekClient, dbInitialized, validationResult, remoteCalls,
                 remoteResult, pitchOutcome, promptOutcome, saved>>
  /\ IF ~Truthy(i) \/ TypeOf(i) # "string" \/ StrLen(Trim(i.v)) < 10
     THEN /\ res' = Respond(400, "",
                            "Please provide a detailed startup idea (minimum 10 characters)")
          /\ pc' = "responded"
          /\ UNCHANGED <<buildCalls, buildArg>>
     ELSE IF StrLen(Trim(i.v)) >= 500
     THEN /\ res' = Respond(400, "", "Idea description too long (maximum 500 characters)")
          /\ pc' = "responded"
          /\ UNCHANGED <<buildCalls, buildArg>>
     ELSE /\ buildCalls' = buildCalls + 1
          /\ buildArg' = Str(Trim(i.v))
          /\ pc' = "awaitBuild"
          /\ UNCHANGED res

\* POST /buildprompt up to its await of generateBuildPrompt
PostBuildPrompt(i, pd) ==
  /\ pc = "idle"
  /\ UNCHANGED sideVars
  /\ UNCHANGED persistence
  /\ endpoint' = "buildprompt"
  /\ idea' = i
  /\ pitchData' = pd
  /\ UNCHANGED <<env, deepseekClient, dbInitialized, validationResult, remoteCalls,
                 remoteResult, pitchOutcome, promptOutcome, saved>>
  /\ IF ~Truthy(i) \/ TypeOf(i) # "string" \/ StrLen(Trim(i.v)) < 10
     THEN /\ res' = Respond(400, "",
                            "Please provide a detailed startup idea (minimum 10 characters)")
          /\ pc' = "responded"
          /\ UNCHANGED <<buildCalls, buildArg>>
     ELSE IF StrLen(Trim(i.v)) > 500
     THEN /\ res' = Respond(400, "", "Idea description too long (maximum 500 characters)")
          /\ pc' = "responded"
          /\ UNCHANGED <<buildCalls, buildArg>>
     ELSE /\ buildCalls' = buildCalls + 1
          /\ buildArg' = Str(Trim(i.v))
          /\ pc' = "awaitBuild"
          /\ UNCHANGED res

\* generateBuildPrompt settles: resolved with a prompt, or rejected
BuildReturns(ok) ==
  /\ pc = "awaitBuild"
  /\ UNCHANGED sideVars
  /\ UNCHANGED <<buildArg, persistence>>
  /\ res' = IF ok THEN Respond(200, "", "")
            ELSE Respond(500, "", "Failed to generate build prompt. Please try again.")
  /\ pc' = "responded"
  /\ UNCHANGED <<env, deepseekClient, dbInitialized, endpoint, idea, pitchData,
                 validationResult, remoteCalls, remoteResult, buildCalls, pitchOutcome,
                 promptOutcome, saved>>

\* the response is sent; the server waits for the next request
Finish ==
  /\ pc = "responded"
  /\ UNCHANGED sideVars
  /\ buildArg' = Undefined
  /\ persistence' = "none"
  /\ pc' = "idle"
  /\ endpoint' = "none"
  /\ idea' = Undefined
  /\ pitchData' = Undefined
  /\ validationResult' = NoValidation
  /\ remoteCalls' = 0
  /\ remoteResult' = NoRemote
  /\ buildCalls' = 0
  /\ pitchOutcome' = NoOutcome
  /\ promptOutcome' = NoOutcome
  /\ saved' = FALSE
  /\ res' = NoResponse
  /\ UNCHANGED <<env, deepseekClient, dbInitialized>>

\* each request step is offered only at its place in the handler
Next ==
  \/ pc = "idle" /\ \E i \in IdeaValues(RouteWords, MaxRouteWords) : PostGenerate(i)
  \/ pc = "awaitPitch"
       /\ \E remote \in RemoteFailures \cup {Ok(c) : c \in PitchContents} :
             PitchRemoteReturns(remote)
  \/ pc = "persist"
       /\ \E db \in {"absent", "connectFailed", "saveFailed", "saved"} : Persist(db)
  \/ pc = "idle"
       /\ \E i \in IdeaValues(RouteWords, MaxRouteWords), pd \in RoutePitchDatas :
             PostCodePrompt(i, pd)
  \/ pc = "awaitPrompt"
       /\ \E remote \in RemoteFailures \cup {Ok(Str(c)) : c \in PromptContents} :
             PromptRemoteReturns(remote)
  \/ pc = "idle"
       /\ \E i \in IdeaValues(BuildWords, MaxRouteWords), pd \in RoutePitchDatas :
             PostBuildPrompt(i, pd)
  \/ pc = "awaitBuild" /\ \E ok \in BOOLEAN : BuildReturns(ok)
  \/ Finish

Spec == Init /\ [][Next]_vars

\* --------------------------------------------- the validator on its own
InitValidator ==
  /\ env \in {e \in Envs : e.DEEPSEEK_API_KEY = "unset" /\ e.OPENAI_API_KEY = "unset"
                           /\ e.MONGODB_URI = "unset"}
  /\ deepseekClient = deepseekClientFor(env)
  /\ dbInitialized = FALSE
  /\ pc = "call"
  /\ endpoint = "validator"
  /\ idea \in IdeaValues(Words, MaxIdeaWords)
  /\ pitchData \in PitchDatas
  /\ validationResult = NoValidation
  /\ remoteCalls = 0
  /\ remoteResult = NoRemote
  /\ buildCalls = 0
  /\ pitchOutcome = NoOutcome
  /\ promptOutcome = NoOutcome
  /\ saved = FALSE
  /\ res = NoResponse
  /\ buildArg = Undefined
  /\ persistence = "none"
  /\ SideIdle

ApplyValidator ==
  /\ pc = "call"
  /\ UNCHANGED sideVars
  /\ UNCHANGED <<buildArg, persistence>>
  /\ endpoint = "validator"
  /\ validationResult' = validateCodePromptInput(idea, pitchData)
  /\ pc' = "returned"
  /\ UNCHANGED <<env, deepseekClient, dbInitialized, endpoint, idea, pitchData,
                 remoteCalls, remoteResult, buildCalls, pitchOutcome, promptOutcome,
                 saved, res>>

NextValidator == ApplyValidator

SpecValidator == InitValidator /\ [][NextValidator]_vars

\* ------------------------------ the inference functions on their own
\* the words of the ideas handed to inferTechStack and extractFeaturesFromIdea
KeywordWords ==
  {" ", "a*9", "User", "registration", "Login", "sign", "dashboard", "find",
   "Chat", "pay", "upload", "notification", "admin", "mobile", "rapid",
   "social", "tracking", "rating", "photo"}

\* the extra text (generated content) handed to inferTechStack
ExtraTexts == {<<>>, <<"email">>, <<"Login">>}

InitInference ==
  /\ env \in {e \in Envs : e.DEEPSEEK_API_KEY = "unset" /\ e.OPENAI_API_KEY = "unset"
                           /\ e.MONGODB_URI = "unset"}
  /\ deepseekClient = deepseekClientFor(env)
  /\ dbInitialized = FALSE
  /\ pc = "call"
  /\ endpoint = "inference"
  /\ idea \in {Str(t) : t \in StringsUpTo(KeywordWords, MaxKeywordWords)}
  /\ pitchData = Undefined
  /\ validationResult = NoValidation
  /\ remoteCalls = 0
  /\ remoteResult \in {Ok(Str(c)) : c \in ExtraTexts}
  /\ buildCalls = 0
  /\ pitchOutcome = NoOutcome
  /\ promptOutcome = NoOutcome
  /\ saved = FALSE
  /\ res = NoResponse
  /\ buildArg = Undefined
  /\ persistence = "none"
  /\ SideIdle

ApplyInference ==
  /\ pc = "call"
  /\ UNCHANGED sideVars
  /\ UNCHANGED <<buildArg, persistence>>
  /\ endpoint = "inference"
  /\ promptOutcome' =
       Prompted("inference",
                [techStack |-> Arr(inferTechStack(idea.v, remoteResult.body.v)),
                 features |-> Arr(extractFeaturesFromIdea(idea.v))])
  /\ pc' = "returned"
  /\ UNCHANGED <<env, deepseekClient, dbInitialized, endpoint, idea, pitchData,
                 validationResult, remoteCalls, remoteResult, buildCalls,
                 pitchOutcome, saved, res>>

NextInference == ApplyInference

SpecInference == InitInference /\ [][NextInference]_vars

\* ------------------------------------- the template path, called twice
\* ideas that pass the validator
ValidatedIdeas ==
  {i \in IdeaValues(RouteWords, MaxRouteWords) : validateCodePromptInput(i, Null).isValid}

InitTemplate ==
  /\ env \in {e \in Envs : e.DEEPSEEK_API_KEY = "unset" /\ e.OPENAI_API_KEY = "unset"
                           /\ e.MONGODB_URI = "unset"}
  /\ deepseekClient = deepseekClientFor(env)
  /\ dbInitialized = FALSE
  /\ pc = "call"
  /\ endpoint = "template"
  /\ idea \in ValidatedIdeas
  /\ pitchData \in PitchDatas
  /\ validationResult = NoValidation
  /\ remoteCalls = 0
  /\ remoteResult = NoRemote
  /\ buildCalls = 0
  /\ pitchOutcome = NoOutcome
  /\ promptOutcome = NoOutcome
  /\ saved = FALSE
  /\ res = NoResponse
  /\ buildArg = Undefined
  /\ persistence = "none"
  /\ SideIdle

\* generateIntelligentTemplate(idea, pitchData), a first time
CallTemplate ==
  /\ pc = "call"
  /\ endpoint = "template"
  /\ firstOutcome' = templateFallback(idea, pitchData)
  /\ pc' = "again"
  /\ UNCHANGED <<env, deepseekClient, dbInitialized, endpoint, idea, pitchData,
                 validationResult, remoteCalls, remoteResult, buildCalls,
                 pitchOutcome, promptOutcome, saved, res, buildArg, persistence,
                 initDBpc, connectCalls, deck, currentSlide, clicks>>

\* and a second time with the same arguments
CallTemplateAgain ==
  /\ pc = "again"
  /\ endpoint = "template"
  /\ promptOutcome' = templateFallback(idea, pitchData)
  /\ pc' = "returned"
  /\ UNCHANGED <<env, deepseekClient, dbInitialized, endpoint, idea, pitchData,
                 validationResult, remoteCalls, remoteResult, buildCalls,
                 pitchOutcome, saved, res, buildArg, persistence, firstOutcome,
                 initDBpc, connectCalls, deck, currentSlide, clicks>>

NextTemplate == CallTemplate \/ CallTemplateAgain

SpecTemplate == InitTemplate /\ [][NextTemplate]_vars

\* ================================================================= claims
FailureKinds == {"auth", "quota", "rateLimit", "server", "network", "timeout", "malformed"}

\* the idea of the request is a string that matches a blocked pattern
IdeaHasBlockedPattern == idea.t = "string" /\ MatchesBlocked(Trim(idea.v))

\* the idea fails the length rule: no string, or trimmed length outside 10..2000
IdeaLengthInvalid ==
  idea.t # "string" \/ StrLen(Trim(idea.v)) < 10 \/ StrLen(Trim(idea.v)) > 2000

NonEmptyString(x) == x.t = "string" /\ x.v # <<>>
NonEmptyArray(x) == x.t = "array" /\ x.v # <<>>

\* C1: for validated input, whenever the remote call fails (or is not made for
\* want of a credential) generateEnhancedCodePrompt returns, and its prompt,
\* techStack and features are non-empty.
PromptGeneratorAbsorbsRemoteFailure ==
  (endpoint = "code-prompt" /\ pc = "responded" /\ validationResult.isValid
     /\ remoteResult.kind # "ok")
  => /\ promptOutcome.kind = "returned"
     /\ res.status = 200
     /\ NonEmptyString(promptOutcome.data.prompt)
     /\ NonEmptyArray(promptOutcome.data.techStack)
     /\ NonEmptyArray(promptOutcome.data.features)

WitnessRateLimitAbsorbed ==
  /\ endpoint = "code-prompt" /\ pc = "responded"
  /\ validationResult.isValid
  /\ remoteCalls = 1
  /\ remoteResult.kind = "rateLimit"
  /\ promptOutcome.kind = "returned"
  /\ promptOutcome.data.features = Arr(<<"Core Application Logic", "User Interface", "Data Management">>)

\* C2: on /generate and /code-prompt a remote call is made only for an idea
\* that passed the length rule; an idea that fails it is answered 400 and no
\* remote call is made for it.
RemoteCallOnlyAfterValidation ==
  (endpoint \in {"generate", "code-prompt"} /\ IdeaLengthInvalid)
  => /\ remoteCalls = 0
     /\ pc \notin {"awaitPitch", "awaitPrompt", "persist"}
     /\ pc = "responded" => res.status = 400

WitnessShortIdeaRejected ==
  /\ endpoint = "code-prompt" /\ pc = "responded"
  /\ idea = Str(<<"Short">>)
  /\ env.DEEPSEEK_API_KEY = "set"
  /\ res.status = 400
  /\ remoteCalls = 0

\* C3: POST /generate with a valid idea reports a configuration error exactly
\* when no DeepSeek credential is configured; with DEEPSEEK_API_KEY
\* configured the request goes on to the remote call.
GenerateIdeaAccepted ==
  idea.t = "string" /\ StrLen(Trim(idea.v)) >= 10 /\ StrLen(idea.v) <= 2000

ReportsConfigError ==
  \/ res.error = "Configuration error"
  \/ res.message = "DeepSeek is not configured. Please set a valid DEEPSEEK_API_KEY in your .env file."

ConfigErrorIffNoDeepSeekKey ==
  (endpoint = "generate" /\ pc = "responded" /\ GenerateIdeaAccepted)
  => /\ ReportsConfigError <=> env.DEEPSEEK_API_KEY # "set"
     /\ env.DEEPSEEK_API_KEY = "set" => remoteCalls = 1

RemoteCallFailed ==
  \/ remoteResult.kind \in FailureKinds
  \/ remoteResult.kind = "ok" /\ remoteResult.body = NotJson

PitchHasNoFallback ==
  (endpoint = "generate" /\ RemoteCallFailed)
  => /\ pitchOutcome.kind = "threw"
     /\ res.status # 200
     /\ pc = "responded"

WitnessPitchTimeoutThrows ==
  /\ endpoint = "generate" /\ pc = "responded"
  /\ remoteResult.kind = "timeout"
  /\ pitchOutcome.kind = "threw"
  /\ res.status = 500

\* C6: a failed POST /generate is answered 400 for a validation failure, 401
\* for an authentication or configuration failure, 429 for a remote rate
\* limit and 500 for every other failure.
GenerateFailureStatus ==
  IF ~GenerateIdeaAccepted THEN 400
  ELSE IF ReportsConfigError \/ remoteResult.kind = "auth" THEN 401
  ELSE IF remoteResult.kind = "rateLimit" THEN 429
  ELSE 500

GenerateStatusByFailureKind ==
  (endpoint = "generate" /\ pc = "responded" /\ res.status # 200)
  => res.status = GenerateFailureStatus

\* C7: on every endpoint that reaches the remote generation client, an idea
\* containing a blocked markup pattern is rejected before any remote call.
BlockedIdeaNeverReachesRemote ==
  IdeaHasBlockedPattern
  => /\ remoteCalls = 0
     /\ pc \notin {"awaitPitch", "awaitPrompt"}

\* C8: generatePitch throws whenever the parsed slides array has fewer than 3
\* or more than 5 entries, and returns only for 3 to 5 slides.
ParsedSlides == Get(remoteResult.body, "slides")

PitchSlideCountEnforced ==
  (endpoint = "generate" /\ remoteResult.kind = "ok")
  => /\ (remoteResult.body.t = "object" /\ IsArray(ParsedSlides)
           /\ Len(ParsedSlides.v) \notin 3..5)
          => pitchOutcome.kind = "threw"
     /\ pitchOutcome.kind = "returned"
          => /\ IsArray(Get(pitchOutcome.value, "slides"))
             /\ Len(Get(pitchOutcome.value, "slides").v) \in 3..5

WitnessSixSlidesRejected ==
  /\ endpoint = "generate" /\ pc = "responded"
  /\ remoteResult.kind = "ok"
  /\ remoteResult.body.t = "object"
  /\ ParsedSlides = Arr(<<SlideHtml, SlideHtml, SlideHtml, SlideHtml, SlideHtml, SlideHtml>>)
  /\ Truthy(Get(remoteResult.body, "name"))
  /\ Truthy(Get(remoteResult.body, "elevator"))
  /\ pitchOutcome = Threw("Failed to generate pitch: Invalid number of slides (should be 3-5)")

\* C9: generatePitch returns only if name and elevator of the parsed answer
\* are strings and slides is a sequence of strings.
PitchFieldsWellTyped ==
  (endpoint = "generate" /\ pitchOutcome.kind = "returned")
  => /\ Get(pitchOutcome.value, "name").t = "string"
     /\ Get(pitchOutcome.value, "elevator").t = "string"
     /\ IsArray(Get(pitchOutcome.value, "slides"))
     /\ \A k \in 1..Len(Get(pitchOutcome.value, "slides").v) :
           Get(pitchOutcome.value, "slides").v[k].t = "string"

\* C10: with no pitch context, an idea string whose trimmed length is in
\* 10..2000 and that matches no blocked pattern is valid, and one whose
\* trimmed length is 2001 or more is invalid with the 2000-character message
\* as its error.
ValidatorAcceptsCleanIdeas ==
  (pc = "returned" /\ endpoint = "validator" /\ idea.t = "string"
     /\ pitchData \in {Undefined, Null})
  => /\ (StrLen(Trim(idea.v)) \in 10..2000 /\ ~MatchesBlocked(Trim(idea.v)))
          => validationResult.isValid
     /\ StrLen(Trim(idea.v)) >= 2001
          => /\ ~validationResult.isValid
             /\ validationResult.error = "Idea must be less than 2000 characters"

WitnessLongIdeaRejected ==
  /\ pc = "returned" /\ endpoint = "validator"
  /\ pitchData = Undefined
  /\ idea = Str(<<"a*1991", "a*9", "a">>)
  /\ ~validationResult.isValid
  /\ validationResult.error = "Idea must be less than 2000 characters"

ValidatorReturned == pc = "returned" /\ endpoint = "validator"

\* C11: every idea string whose trimmed length is less than 10 is rejected
\* with the error 'Idea must be at least 10 characters long'.
ShortIdeaGetsLengthMessage ==
  ValidatorReturned /\ idea.t = "string" /\ StrLen(Trim(idea.v)) < 10
    => /\ ~validationResult.isValid
       /\ validationResult.error = "Idea must be at least 10 characters long"

\* C11 (amended): an idea string whose trimmed length is 1..9 is rejected with
\* the error 'Idea must be at least 10 characters long'; one whose trimmed
\* length is 0 is rejected too, with 'Idea is required' when the string itself
\* is empty and 'Idea cannot be empty' when it is white space only.
ShortIdeaMessageByLength ==
  ValidatorReturned /\ idea.t = "string" /\ StrLen(Trim(idea.v)) < 10
    => /\ ~validationResult.isValid
       /\ validationResult.error =
            IF idea.v = <<>> THEN "Idea is required"
            ELSE IF StrLen(Trim(idea.v)) = 0 THEN "Idea cannot be empty"
            ELSE "Idea must be at least 10 characters long"

WitnessShortIdeaLengthMessage ==
  /\ ValidatorReturned
  /\ idea = Str(<<" ", "<SCRIPT", " ">>)
  /\ validationResult.error = "Idea must be at least 10 characters long"

\* the words that hold '<script', 'javascript:' or 'data:text/html' in some
\* letter case
InjectionWords == {"<SCRIPT", "JavaScript:", "data:text/html"}

\* C12: an idea string containing '<script', 'javascript:' or 'data:text/html'
\* in any letter case has 'Idea contains potentially harmful content' among
\* its violations, whatever its length and whatever else was violated.
HarmfulContentAlwaysReported ==
  /\ ValidatorReturned
  /\ idea.t = "string"
  /\ \E i \in 1..Len(idea.v) : idea.v[i] \in InjectionWords
  => \E k \in 1..Len(validationResult.details) :
        validationResult.details[k] = "Idea contains potentially harmful content"

WitnessHarmfulAfterLengthRule ==
  /\ ValidatorReturned
  /\ idea = Str(<<"a*1991", "a*9", "JavaScript:">>)
  /\ validationResult.details =
       <<"Idea must be less than 2000 characters",
         "Idea contains potentially harmful content">>

\* the violations in the order of the rules that report them
RuleOrder ==
  <<"Idea is required", "Idea must be a string", "Idea cannot be empty",
    "Idea must be at least 10 characters long",
    "Idea must be less than 2000 characters",
    "Idea contains potentially harmful content",
    "Pitch data must be an object", "Pitch name must be a string",
    "Elevator pitch must be a string", "Slides must be an array">>

RuleOf(message) == CHOOSE r \in 1..Len(RuleOrder) : RuleOrder[r] = message

\* C13: in every result isValid is true exactly when details is empty, error
\* is null exactly when details is empty and is otherwise the first element of
\* details, and the violations stand in rule order, idea rules first.
ResultShape ==
  ValidatorReturned =>
    LET r == validationResult IN
    /\ r.isValid <=> r.details = <<>>
    /\ r.error = NoError <=> r.details = <<>>
    /\ r.details # <<>> => r.error = r.details[1]
    /\ \A k \in 1..Len(r.details) : \E n \in 1..Len(RuleOrder) : RuleOrder[n] = r.details[k]
    /\ \A k \in 1..Len(r.details) - 1 : RuleOf(r.details[k]) < RuleOf(r.details[k + 1])

WitnessIdeaAndPitchViolations ==
  /\ ValidatorReturned
  /\ idea = Str(<<"<SCRIPT">>)
  /\ pitchData = Obj(Num(123), Num(1), Str(<<"a">>))
  /\ validationResult.details =
       <<"Idea must be at least 10 characters long",
         "Idea contains potentially harmful content",
         "Pitch name must be a string", "Elevator pitch must be a string",
         "Slides must be an array">>

Reports(message) ==
  \E k \in 1..Len(validationResult.details) : validationResult.details[k] = message

\* a property the pitch context carries (anything but undefined)
Present(x) == x.t # "undefined"

\* C14: a supplied pitch context is rejected unless it is an object, and an
\* object context gets its own violation for a present name that is not a
\* string, a present elevator that is not a string and a present slides that is
\* not an array, so that no such context is accepted.
PitchContextFieldsChecked ==
  ValidatorReturned /\ pitchData.t \notin {"null", "undefined"} =>
    /\ TypeOf(pitchData) # "object" => Reports("Pitch data must be an object")
    /\ pitchData.t = "object" =>
         /\ Present(pitchData.v.name) /\ pitchData.v.name.t # "string"
              => Reports("Pitch name must be a string")
         /\ Present(pitchData.v.elevator) /\ pitchData.v.elevator.t # "string"
              => Reports("Elevator pitch must be a string")
         /\ Present(pitchData.v.slides) /\ pitchData.v.slides.t # "array"
              => Reports("Slides must be an array")
    /\ validationResult.isValid /\ pitchData.t = "object" =>
         /\ pitchData.v.name.t \in {"undefined", "string"}
         /\ pitchData.v.elevator.t \in {"undefined", "string"}
         /\ pitchData.v.slides.t \in {"undefined", "array"}

PromptAnswered ==
  endpoint = "code-prompt" /\ pc = "responded" /\ remoteResult.kind = "ok"

\* the object literals that carry both a prompt and a techStack
UsableJsonWords == {JsonFull, JsonNoFeatures, JsonStringTechStack, JsonDuplicates}

\* C15: when the remote call succeeds and its text holds no JSON object with
\* prompt and techStack, parseStructuredResponse returns the whole raw text as
\* the prompt, techStack from inferTechStack, features from extractFeatures and
\* the default file structure, and /code-prompt answers 200.
RawTextFallbackOnUnusableJson ==
  /\ PromptAnswered
  /\ \A i \in 1..Len(remoteResult.body.v) : remoteResult.body.v[i] \notin UsableJsonWords
  => /\ promptOutcome.kind = "returned"
     /\ promptOutcome.data.prompt = remoteResult.body
     /\ promptOutcome.data.techStack =
          Arr(inferTechStack(Trim(idea.v), remoteResult.body.v))
     /\ promptOutcome.data.features =
          Arr(extractFeatures(remoteResult.body.v, Trim(idea.v)))
     /\ promptOutcome.data.fileStructure = generateDefaultFileStructure
     /\ res.status = 200

WitnessRawTextWithPaymentFeature ==
  /\ PromptAnswered
  /\ idea = Str(<<"a*9", "a*9">>)
  /\ remoteResult.body = Str(<<"stripe", " ", "login">>)
  /\ promptOutcome.data.prompt = Str(<<"stripe", " ", "login">>)
  /\ promptOutcome.data.features =
       Arr(<<"Core Application Logic", "User Interface", "Data Management",
             "Payment Integration">>)
  /\ res.status = 200

\* the object literals whose prompt is a string and whose techStack is an array
WellFormedJsonWords == {JsonFull, JsonNoFeatures, JsonDuplicates}

\* C16: when the remote text holds a JSON object with prompt and techStack,
\* with or without prose before and after it, the result carries that
\* object's prompt and techStack.
EmbeddedJsonIsReturned ==
  PromptAnswered =>
    \A i \in 1..Len(remoteResult.body.v) :
       remoteResult.body.v[i] \in WellFormedJsonWords =>
         /\ promptOutcome.data.prompt = JSONparse(<<remoteResult.body.v[i]>>).v.prompt
         /\ promptOutcome.data.techStack = JSONparse(<<remoteResult.body.v[i]>>).v.techStack

NoDuplicates(seq) ==
  \A i \in 1..Len(seq), j \in 1..Len(seq) : i # j => seq[i] # seq[j]

\* C17: the techStack of every result of generateEnhancedCodePrompt, from the
\* remote answer or from the template, has no duplicate entries.
TechStackHasNoDuplicates ==
  endpoint = "code-prompt" /\ pc = "responded" /\ promptOutcome.kind = "returned"
    => NoDuplicates(promptOutcome.data.techStack.v)

\* C18: the features of every result of generateEnhancedCodePrompt, from the
\* template, from the raw text or from the parsed JSON, have no duplicate
\* entries.
FeaturesHaveNoDuplicates ==
  endpoint = "code-prompt" /\ pc = "responded" /\ promptOutcome.kind = "returned"
    => NoDuplicates(promptOutcome.data.features.v)

InferenceReturned == pc = "returned" /\ endpoint = "inference"

\* the words of the idea followed by the words of the extra text
AnalysisWords == idea.v \o remoteResult.body.v

\* some word of ws is one of the words W
HasWord(ws, W) == \E i \in 1..Len(ws) : ws[i] \in W

\* some word of A stands before some word of B in ws
HasWordsInOrder(ws, A, B) ==
  \E i \in 1..Len(ws), j \in 1..Len(ws) : i < j /\ ws[i] \in A /\ ws[j] \in B

\* C19: inferTechStack returns exactly the five baseline entries, then the
\* technologies of each keyword family, in the order authentication, payment,
\* realtime, upload, email, if and only if a keyword of the family occurs in
\* the lower-cased idea or extra text, then Swagger/OpenAPI, Vite, ESLint,
\* Prettier; without a keyword it is the baseline and the closing set only.
TechStackByKeywordFamily ==
  InferenceReturned =>
    promptOutcome.data.techStack.v =
      <<"MongoDB", "Express.js", "React", "Node.js", "Tailwind CSS">>
      \o (IF HasWord(AnalysisWords, {"User", "Login"}) THEN <<"JWT", "bcrypt">> ELSE <<>>)
      \o (IF HasWord(AnalysisWords, {"pay"}) THEN <<"Stripe">> ELSE <<>>)
      \o (IF HasWord(AnalysisWords, {"Chat"}) THEN <<"Socket.io">> ELSE <<>>)
      \o (IF HasWord(AnalysisWords, {"upload", "photo"})
          THEN <<"Multer", "Cloudinary">> ELSE <<>>)
      \o (IF HasWord(AnalysisWords, {"email", "notification"})
          THEN <<"Nodemailer">> ELSE <<>>)
      \o <<"Swagger/OpenAPI", "Vite", "ESLint", "Prettier">>

WitnessRealtimeUploadEmailStack ==
  /\ InferenceReturned
  /\ idea = Str(<<"Chat", "photo">>)
  /\ remoteResult.body = Str(<<"email">>)
  /\ promptOutcome.data.techStack.v =
       <<"MongoDB", "Express.js", "React", "Node.js", "Tailwind CSS",
         "Socket.io", "Multer", "Cloudinary", "Nodemailer",
         "Swagger/OpenAPI", "Vite", "ESLint", "Prettier">>

\* the words that hold 'in', the second half of the pattern sign.*in
WordsWithIn == {"Login", "find", "admin", "tracking", "rating"}

\* the label of each of the 14 keyword families, in table order, and whether
\* the family matches the words ws
FamilyTable(ws) ==
  <<[feature |-> "User Registration & Authentication",
     matches |-> \/ HasWordsInOrder(ws, {"User"}, {"registration"})
                 \/ HasWordsInOrder(ws, {"sign"}, {"upload"})],
    [feature |-> "User Login System",
     matches |-> HasWord(ws, {"Login"}) \/ HasWordsInOrder(ws, {"sign"}, WordsWithIn)],
    [feature |-> "User Dashboard & Profile Management",
     matches |-> HasWord(ws, {"dashboard"})],
    [feature |-> "Search & Discovery", matches |-> HasWord(ws, {"find"})],
    [feature |-> "Real-time Messaging", matches |-> HasWord(ws, {"Chat"})],
    [feature |-> "Payment Processing", matches |-> HasWord(ws, {"pay"})],
    [feature |-> "Content Upload & Sharing", matches |-> HasWord(ws, {"upload"})],
    [feature |-> "Notification System", matches |-> HasWord(ws, {"notification"})],
    [feature |-> "Admin Panel", matches |-> HasWord(ws, {"admin"})],
    [feature |-> "Mobile-Responsive Design", matches |-> HasWord(ws, {"mobile"})],
    [feature |-> "RESTful API", matches |-> HasWord(ws, {"rapid"})],
    [feature |-> "Social Features", matches |-> HasWord(ws, {"social"})],
    [feature |-> "Analytics & Tracking", matches |-> HasWord(ws, {"tracking"})],
    [feature |-> "Review & Rating System", matches |-> HasWord(ws, {"rating"})]>>

\* the labels of the matching rows of a family table, in its order
RECURSIVE MatchingLabels(_)
MatchingLabels(table) ==
  IF table = <<>> THEN <<>>
  ELSE (IF Head(table).matches THEN <<Head(table).feature>> ELSE <<>>)
       \o MatchingLabels(Tail(table))

\* C20: extractFeaturesFromIdea returns the generic list ('Core Application
\* Logic', 'User Interface', 'Data Management') if and only if none of the 14
\* keyword families matches the lower-cased idea, and otherwise exactly one
\* label per matching family, in table order.
FeaturesByKeywordFamily ==
  InferenceReturned =>
    LET labels == MatchingLabels(FamilyTable(idea.v))
        generic == <<"Core Application Logic", "User Interface", "Data Management">>
        features == promptOutcome.data.features.v
    IN /\ features = generic <=> labels = <<>>
       /\ labels # <<>> => features = labels

WitnessSignUploadFeatures ==
  /\ InferenceReturned
  /\ idea = Str(<<"sign", "upload">>)
  /\ promptOutcome.data.features.v =
       <<"User Registration & Authentication", "Content Upload & Sharing">>

AtMostOneRemoteCall ==
  endpoint \in {"generate", "code-prompt"} =>
    /\ remoteCalls <= 1
    /\ pc = "responded" /\ remoteResult.kind \in FailureKinds =>
         /\ remoteCalls = 1
         /\ endpoint = "generate" =>
              pitchOutcome.kind = "threw" /\ res.status = 500
         /\ endpoint = "code-prompt" =>
              /\ promptOutcome.kind = "returned"
              /\ promptOutcome.via = "template"
              /\ res.status = 200

WitnessServerErrorNotRetried ==
  /\ endpoint = "generate" /\ pc = "responded"
  /\ remoteResult.kind = "server"
  /\ remoteCalls = 1
  /\ pitchOutcome.kind = "threw"
  /\ res.status = 500

\* C23: POST /generate answers the same whether the database is absent, fails
\* to connect or fails to save: once generatePitch has returned, the response
\* is the 200 success and the pitch is the one the generator returned.
PersistenceNeverFailsGenerate ==
  endpoint = "generate" /\ pc = "responded" /\ pitchOutcome.kind = "returned" =>
    /\ persistence \in {"absent", "connectFailed", "saveFailed", "saved"}
    /\ res = Respond(200, "", "")
    /\ pitchOutcome.value = remoteResult.body

WitnessSaveFailedStill200 ==
  /\ endpoint = "generate" /\ pc = "responded"
  /\ env.MONGODB_URI = "set"
  /\ persistence = "saveFailed"
  /\ ~saved
  /\ pitchOutcome.kind = "returned"
  /\ res.status = 200

\* the idea of the request is a string of trimmed length 10..500
BuildIdeaInRange ==
  /\ TypeOf(idea) = "string"
  /\ StrLen(Trim(idea.v)) >= 10
  /\ StrLen(Trim(idea.v)) <= 500

\* C24 as stated: POST /buildprompt answers 200, with the service invoked on
\* the trimmed idea, exactly when the idea is a string of trimmed length
\* 10..500; otherwise it answers 400 and the service is not invoked.
BuildPromptAnswers200ExactlyInRange ==
  endpoint = "buildprompt" /\ pc = "responded" =>
    /\ BuildIdeaInRange <=>
         res.status = 200 /\ buildCalls = 1 /\ buildArg = Str(Trim(idea.v))
    /\ ~BuildIdeaInRange => res.status = 400 /\ buildCalls = 0

\* C24: POST /buildprompt invokes the generation service, once and with the
\* trimmed idea, exactly when the idea is a string of trimmed length 10..500
\* (500 invoked, 501 not); it then answers 200 when the service resolves and
\* 500 when it rejects; otherwise it answers 400 and the service is not invoked.
BuildPromptInvokesExactlyInRange ==
  endpoint = "buildprompt" /\ pc \in {"awaitBuild", "responded"} =>
    /\ BuildIdeaInRange <=> buildCalls = 1 /\ buildArg = Str(Trim(idea.v))
    /\ ~BuildIdeaInRange => buildCalls = 0 /\ buildArg = Undefined /\ res.status = 400
    /\ pc = "awaitBuild" => BuildIdeaInRange
    /\ pc = "responded" /\ BuildIdeaInRange => res.status \in {200, 500}

WitnessTrimmedIdeaOf500Accepted ==
  /\ endpoint = "buildprompt" /\ pc = "responded"
  /\ idea = Str(<<"a*491", "a*9">>)
  /\ StrLen(Trim(idea.v)) = 500
  /\ buildCalls = 1
  /\ buildArg = Str(<<"a*491", "a*9">>)
  /\ res.status = 200

\* the words of the messages the buildprompt route sends with status 400
MessageWords(message) ==
  CASE message = "Please provide a detailed startup idea (minimum 10 characters)" ->
         <<"Please", "provide", "a", "detailed", "startup", "idea",
           "(minimum", "10", "characters)">>
    [] message = "Idea description too long (maximum 500 characters)" ->
         <<"Idea", "description", "too", "long", "(maximum", "500", "characters)">>
    [] OTHER -> <<>>

\* the phrase occurs in the message, word for word and case-sensitively
ContainsPhrase(words, phrase) ==
  \E k \in 0..(Len(words) - Len(phrase)) :
     \A j \in 1..Len(phrase) : words[k + j] = phrase[j]

\* C25: POST /buildprompt answers a rejected idea with status 400 and a message
\* naming the reason: 'Please provide a valid startup idea' for an empty, missing
\* or non-string idea, 'Please provide more details' for an idea below the
\* minimum length, 'Description too long' for an idea over 500 characters.
BuildPromptRejectionNamesReason ==
  endpoint = "buildprompt" /\ pc = "responded" /\ ~BuildIdeaInRange =>
    /\ res.status = 400
    /\ TypeOf(idea) # "string" \/ idea = Str(<<>>) =>
         ContainsPhrase(MessageWords(res.message),
                        <<"Please", "provide", "a", "valid", "startup", "idea">>)
    /\ TypeOf(idea) = "string" /\ idea # Str(<<>>) /\ StrLen(Trim(idea.v)) < 10 =>
         ContainsPhrase(MessageWords(res.message), <<"Please", "provide", "more", "details">>)
    /\ TypeOf(idea) = "string" /\ StrLen(Trim(idea.v)) > 500 =>
         ContainsPhrase(MessageWords(res.message), <<"Description", "too", "long">>)

\* ------------------------------------------------ validators: sanitizeInput
\* The characters of a string as cells: a character c repeated n times.
CellsOfWord(w) ==
  IF Spell(w).rep = 1
  THEN [i \in 1..Len(Spell(w).chars) |-> [c |-> Spell(w).chars[i], n |-> 1]]
  ELSE [i \in 1..Len(Spell(w).chars) |-> [c |-> Spell(w).chars[i], n |-> Spell(w).rep]]

RECURSIVE Cells(_)
Cells(s) == IF s = <<>> THEN <<>> ELSE CellsOfWord(Head(s)) \o Cells(Tail(s))

\* the length of a string of cells
RECURSIVE CellsLength(_)
CellsLength(cs) == IF cs = <<>> THEN 0 ELSE Head(cs).n + CellsLength(Tail(cs))

\* .trim()
RECURSIVE TrimCellsLeft(_)
TrimCellsLeft(cs) ==
  IF cs # <<>> /\ Head(cs).c = " " THEN TrimCellsLeft(Tail(cs)) ELSE cs

RECURSIVE TrimCellsRight(_)
TrimCellsRight(cs) ==
  IF cs # <<>> /\ cs[Len(cs)].c = " "
  THEN TrimCellsRight(SubSeq(cs, 1, Len(cs) - 1)) ELSE cs

TrimCells(cs) == TrimCellsRight(TrimCellsLeft(cs))

\* the pattern (lower-case characters, /i flag) matches at cell k; the patterns
\* repeat no character twice in a row, so a match takes cells of one character
MatchAt(cs, k, pattern) ==
  /\ k + Len(pattern) - 1 <= Len(cs)
  /\ \A j \in 1..Len(pattern) :
        cs[k + j - 1].n = 1 /\ LowerChar(cs[k + j - 1].c) = pattern[j]

\* .replace(/pattern/gi, replacement): matches taken left to right, not overlapping
RECURSIVE ReplaceFrom(_, _, _, _)
ReplaceFrom(cs, k, pattern, replacement) ==
  IF k > Len(cs) THEN <<>>
  ELSE IF MatchAt(cs, k, pattern)
  THEN [i \in 1..Len(replacement) |-> [c |-> replacement[i], n |-> 1]]
       \o ReplaceFrom(cs, k + Len(pattern), pattern, replacement)
  ELSE <<cs[k]>> \o ReplaceFrom(cs, k + 1, pattern, replacement)

ReplaceAll(cs, pattern, replacement) == ReplaceFrom(cs, 1, pattern, replacement)

\* .replace(/[<>]/g, '')
RemoveAngleBrackets(cs) == SelectSeq(cs, LAMBDA x : x.c \notin {"<", ">"})

\* .slice(0, limit)
RECURSIVE SliceCells(_, _)
SliceCells(cs, limit) ==
  IF cs = <<>> \/ limit = 0 THEN <<>>
  ELSE IF Head(cs).n <= limit
  THEN <<Head(cs)>> \o SliceCells(Tail(cs), limit - Head(cs).n)
  ELSE <<[c |-> Head(cs).c, n |-> limit]>>

PatScript == <<"s","c","r","i","p","t">>
PatJavascript == <<"j","a","v","a","s","c","r","i","p","t",":">>
ReplScript == <<"s","c","_","r","i","p","t">>
ReplJavascript == <<"j","a","v","a","_","s","c","r","i","p","t",":">>

\* sanitizeInput with the script replacement done before the brackets are removed
sanitizeInputScriptFirst(input) ==
  IF TypeOf(input) # "string" THEN Str(<<>>)
  ELSE Str(SliceCells(
             ReplaceAll(
               RemoveAngleBrackets(ReplaceAll(TrimCells(Cells(input.v)),
                                              PatScript, ReplScript)),
               PatJavascript, ReplJavascript),
             2000))

\* sanitizeInput(input): the result is a string of cells
sanitizeInput(input) ==
  IF TypeOf(input) # "string" THEN Str(<<>>)
  ELSE Str(SliceCells(
             ReplaceAll(
               ReplaceAll(RemoveAngleBrackets(TrimCells(Cells(input.v))),
                          PatScript, ReplScript),
               PatJavascript, ReplJavascript),
             2000))

\* the words of the inputs handed to sanitizeInput
MaxSanitizeWords == 3
SanitizeWords ==
  {" ", "a*9", "a*1991", "Short", "<", ">", "scr", "ipt", "SCRIPT", "JavaScript:"}

SanitizeInputs ==
  {Undefined, Null, Num(123), Arr(<<>>)}
  \cup {Str(s) : s \in StringsUpTo(SanitizeWords, MaxSanitizeWords)}

InitSanitize ==
  /\ env \in {e \in Envs : e.DEEPSEEK_API_KEY = "unset" /\ e.OPENAI_API_KEY = "unset"
                           /\ e.MONGODB_URI = "unset"}
  /\ deepseekClient = deepseekClientFor(env)
  /\ dbInitialized = FALSE
  /\ pc = "call"
  /\ endpoint = "sanitize"
  /\ idea \in SanitizeInputs
  /\ pitchData = Undefined
  /\ validationResult = NoValidation
  /\ remoteCalls = 0
  /\ remoteResult = NoRemote
  /\ buildCalls = 0
  /\ pitchOutcome = NoOutcome
  /\ promptOutcome = NoOutcome
  /\ saved = FALSE
  /\ res = NoResponse
  /\ buildArg = Undefined
  /\ persistence = "none"
  /\ SideIdle

ApplySanitize ==
  /\ pc = "call"
  /\ endpoint = "sanitize"
  /\ UNCHANGED sideVars
  /\ UNCHANGED <<buildArg, persistence>>
  /\ promptOutcome' = Returned(sanitizeInput(idea))
  /\ pc' = "returned"
  /\ UNCHANGED <<env, deepseekClient, dbInitialized, endpoint, idea, pitchData,
                 validationResult, remoteCalls, remoteResult, buildCalls,
                 pitchOutcome, saved, res>>

NextSanitize == ApplySanitize

SpecSanitize == InitSanitize /\ [][NextSanitize]_vars

SanitizeReturned == endpoint = "sanitize" /\ pc = "returned"

JsonWordsOmittingDefaults == {JsonNoFeatures, JsonStringTechStack}

\* C27: when the remote JSON object has prompt and techStack but omits
\* fileStructure, summary and features, parseStructuredResponse returns the
\* default file structure, the summary of generateSummary and, as features,
\* what the feature extractor returns for the idea.
OmittedFieldsAreDerived ==
  /\ PromptAnswered
  /\ MatchBraces(remoteResult.body.v) # <<>>
  /\ Len(MatchBraces(remoteResult.body.v)) = 1
  /\ MatchBraces(remoteResult.body.v)[1] \in JsonWordsOmittingDefaults
  => /\ promptOutcome.kind = "returned"
     /\ promptOutcome.data.fileStructure = generateDefaultFileStructure
     /\ promptOutcome.data.summary = generateSummary(Trim(idea.v), Or(pitchData, Null))
     /\ promptOutcome.data.features = Arr(extractFeaturesFromIdea(Trim(idea.v)))

\* ------------------------------------------- generateSummary on its own
MaxSummaryWords == 3
SummaryWords == {".", " ", "a*9", "Short", "a*1991"}

\* pitch contexts with and without an elevator pitch
SummaryPitchDatas ==
  {Undefined, Null,
   Obj(Str(<<"Short">>), Str(<<"a*9", " ", "login">>), Undefined),
   Obj(Str(<<"Short">>), Str(<<>>), Undefined),
   Obj(Num(123), Undefined, Undefined)}

InitSummary ==
  /\ env \in {e \in Envs : e.DEEPSEEK_API_KEY = "unset" /\ e.OPENAI_API_KEY = "unset"
                           /\ e.MONGODB_URI = "unset"}
  /\ deepseekClient = deepseekClientFor(env)
  /\ dbInitialized = FALSE
  /\ pc = "call"
  /\ endpoint = "summary"
  /\ idea \in {Str(t) : t \in StringsUpTo(SummaryWords, MaxSummaryWords)}
  /\ pitchData \in SummaryPitchDatas
  /\ validationResult = NoValidation
  /\ remoteCalls = 0
  /\ remoteResult = NoRemote
  /\ buildCalls = 0
  /\ pitchOutcome = NoOutcome
  /\ promptOutcome = NoOutcome
  /\ saved = FALSE
  /\ res = NoResponse
  /\ buildArg = Undefined
  /\ persistence = "none"
  /\ SideIdle

ApplySummary ==
  /\ pc = "call"
  /\ endpoint = "summary"
  /\ UNCHANGED sideVars
  /\ UNCHANGED <<buildArg, persistence>>
  /\ promptOutcome' = Returned(generateSummary(idea.v, pitchData))
  /\ pc' = "returned"
  /\ UNCHANGED <<env, deepseekClient, dbInitialized, endpoint, idea, pitchData,
                 validationResult, remoteCalls, remoteResult, buildCalls,
                 pitchOutcome, saved, res>>

NextSummary == ApplySummary

SpecSummary == InitSummary /\ [][NextSummary]_vars

SummaryReturned == endpoint = "summary" /\ pc = "returned"

HasElevator == pitchData.t = "object" /\ Truthy(pitchData.v.elevator)

\* the sentences of the idea that are not blank
IdeaSentences == NonBlank(SplitDots(idea.v, <<>>))

\* C28: generateSummary returns the elevator pitch when the context has one;
\* otherwise the idea's first non-empty sentence; otherwise, when the idea has
\* no non-empty sentence, the idea truncated to 150 characters.
SummaryByElevatorSentenceOrTruncation ==
  SummaryReturned =>
    LET out == promptOutcome.value IN
    /\ HasElevator => out = pitchData.v.elevator
    /\ ~HasElevator /\ IdeaSentences # <<>> =>
         out = Str(Trim(IdeaSentences[1]) \o <<".">>)
    /\ ~HasElevator /\ IdeaSentences = <<>> =>
         LET truncated == SliceCells(Cells(idea.v), 150)
         IN /\ out.t = "string"
            /\ Len(Cells(out.v)) >= Len(truncated)
            /\ SubSeq(Cells(out.v), 1, Len(truncated)) = truncated
            /\ truncated = <<>> => out.v \in {<<>>, <<"...">>}

\* ------------------------------- concurrent requests to POST /generate
\* Each request is a chain of awaits; between two awaits no other request runs.
MaxRequests == 2
Requests == 1..MaxRequests

InitInitDB ==
  /\ env \in Envs
  /\ deepseekClient = deepseekClientFor(env)
  /\ dbInitialized = FALSE
  /\ pc = "serving"
  /\ endpoint = "generate"
  /\ idea = Undefined
  /\ pitchData = Undefined
  /\ validationResult = NoValidation
  /\ remoteCalls = 0
  /\ remoteResult = NoRemote
  /\ buildCalls = 0
  /\ pitchOutcome = NoOutcome
  /\ promptOutcome = NoOutcome
  /\ saved = FALSE
  /\ res = NoResponse
  /\ buildArg = Undefined
  /\ persistence = "none"
  /\ firstOutcome = [kind |-> "none", message |-> ""]
  /\ initDBpc = [r \in Requests |-> "idle"]
  /\ connectCalls = 0
  /\ deck = 0
  /\ currentSlide = 0
  /\ clicks = <<>>

requestVars ==
  <<env, deepseekClient, pc, endpoint, idea, pitchData, validationResult, remoteCalls,
    remoteResult, buildCalls, pitchOutcome, promptOutcome, saved, res, buildArg,
    persistence, firstOutcome, deck, currentSlide, clicks>>

\* a valid request arrives and awaits generatePitch (line 48)
GenerateArrives(r) ==
  /\ initDBpc[r] = "idle"
  /\ initDBpc' = [initDBpc EXCEPT ![r] = "awaitPitch"]
  /\ UNCHANGED <<dbInitialized, connectCalls>>
  /\ UNCHANGED requestVars

\* generatePitch throws: the outer catch answers 500, initDB is not reached
GeneratePitchThrows(r) ==
  /\ initDBpc[r] = "awaitPitch"
  /\ initDBpc' = [initDBpc EXCEPT ![r] = "responded"]
  /\ UNCHANGED <<dbInitialized, connectCalls>>
  /\ UNCHANGED requestVars

\* generatePitch returns and initDB runs up to its await: the flag is read and,
\* when it is false, connectDB is called
initDBEnter(r) ==
  /\ initDBpc[r] = "awaitPitch"
  /\ IF ~dbInitialized
     THEN /\ connectCalls' = connectCalls + 1
          /\ initDBpc' = [initDBpc EXCEPT ![r] = "awaitConnect"]
     ELSE /\ UNCHANGED connectCalls
          /\ initDBpc' = [initDBpc EXCEPT ![r] = "save"]
  /\ UNCHANGED dbInitialized
  /\ UNCHANGED requestVars

\* connectDB settles (it catches its own errors): the flag is set
initDBResume(r) ==
  /\ initDBpc[r] = "awaitConnect"
  /\ dbInitialized' = TRUE
  /\ initDBpc' = [initDBpc EXCEPT ![r] = "save"]
  /\ UNCHANGED connectCalls
  /\ UNCHANGED requestVars

\* the save is tried and the request is answered
GenerateAnswers(r) ==
  /\ initDBpc[r] = "save"
  /\ initDBpc' = [initDBpc EXCEPT ![r] = "responded"]
  /\ UNCHANGED <<dbInitialized, connectCalls>>
  /\ UNCHANGED requestVars

\* the client posts again
GenerateAgain(r) ==
  /\ initDBpc[r] = "responded"
  /\ initDBpc' = [initDBpc EXCEPT ![r] = "idle"]
  /\ UNCHANGED <<dbInitialized, connectCalls>>
  /\ UNCHANGED requestVars

NextInitDB ==
  \E r \in Requests :
     \/ GenerateArrives(r)
     \/ GeneratePitchThrows(r)
     \/ initDBEnter(r)
     \/ initDBResume(r)
     \/ GenerateAnswers(r)
     \/ GenerateAgain(r)

SpecInitDB == InitInitDB /\ [][NextInitDB]_vars

\* C29: under any interleaving of concurrent requests to /generate, initDB
\* calls connectDB at most once in the life of the process.
ConnectDBCalledAtMostOnce ==
  endpoint = "generate" /\ pc = "serving" => connectCalls <= 1

\* ------------------------------------------- components/PitchResult carousel
\* slides.length of a pitch the server returns (deepseek.js line 90)
DeckSizes == 3..5

\* the updater of handlePrevSlide
prevSlide(prev, n) == IF prev = 0 THEN n - 1 ELSE prev - 1

\* the updater of handleNextSlide without the wrap to the first slide
nextSlideNoWrap(prev, n) == prev + 1

\* the updater of handleNextSlide
nextSlide(prev, n) == IF prev = n - 1 THEN 0 ELSE prev + 1

\* the last two clicks, each with the index it found
Remember(click) ==
  IF clicks = <<>> THEN <<click>> ELSE <<clicks[Len(clicks)], click>>

InitCarousel ==
  /\ env \in {e \in Envs : e.DEEPSEEK_API_KEY = "unset" /\ e.OPENAI_API_KEY = "unset"
                           /\ e.MONGODB_URI = "unset"}
  /\ deepseekClient = deepseekClientFor(env)
  /\ dbInitialized = FALSE
  /\ pc = "mounted"
  /\ endpoint = "carousel"
  /\ idea = Undefined
  /\ pitchData = Undefined
  /\ validationResult = NoValidation
  /\ remoteCalls = 0
  /\ remoteResult = NoRemote
  /\ buildCalls = 0
  /\ pitchOutcome = NoOutcome
  /\ promptOutcome = NoOutcome
  /\ saved = FALSE
  /\ res = NoResponse
  /\ buildArg = Undefined
  /\ persistence = "none"
  /\ firstOutcome = [kind |-> "none", message |-> ""]
  /\ initDBpc = <<>>
  /\ connectCalls = 0
  /\ deck \in DeckSizes
  /\ currentSlide = 0
  /\ clicks = <<>>

carouselFixed ==
  <<env, deepseekClient, dbInitialized, pc, endpoint, idea, pitchData, validationResult,
    remoteCalls, remoteResult, buildCalls, pitchOutcome, promptOutcome, saved, res,
    buildArg, persistence, firstOutcome, initDBpc, connectCalls>>

handlePrevSlide ==
  /\ pc = "mounted"
  /\ currentSlide' = prevSlide(currentSlide, deck)
  /\ clicks' = Remember([op |-> "prev", from |-> currentSlide, index |-> 0])
  /\ UNCHANGED deck
  /\ UNCHANGED carouselFixed

handleNextSlide ==
  /\ pc = "mounted"
  /\ currentSlide' = nextSlide(currentSlide, deck)
  /\ clicks' = Remember([op |-> "next", from |-> currentSlide, index |-> 0])
  /\ UNCHANGED deck
  /\ UNCHANGED carouselFixed

\* a click on the indicator of slide `index`
SelectSlide(index) ==
  /\ pc = "mounted"
  /\ currentSlide' = index
  /\ clicks' = Remember([op |-> "select", from |-> currentSlide, index |-> index])
  /\ UNCHANGED deck
  /\ UNCHANGED carouselFixed

\* reset, a new pitch, and PitchResult mounted again with useState(0)
Remount(n) ==
  /\ pc = "mounted"
  /\ deck' = n
  /\ currentSlide' = 0
  /\ clicks' = <<>>
  /\ UNCHANGED carouselFixed

NextCarousel ==
  \/ handlePrevSlide
  \/ handleNextSlide
  \/ \E index \in 0..(deck - 1) : SelectSlide(index)
  \/ \E n \in DeckSizes : Remount(n)

SpecCarousel == InitCarousel /\ [][NextCarousel]_vars

LastClick == clicks[Len(clicks)]

\* C30: with n slides (3..5) currentSlide stays in 0..n-1 under prev, next and
\* select; prev from slide 0 goes to n-1 and next from n-1 goes to 0; next after
\* prev and prev after next restore the index.
CarouselStaysInRangeAndWraps ==
  endpoint = "carousel" =>
    /\ deck \in 3..5
    /\ currentSlide \in 0..(deck - 1)
    /\ clicks # <<>> =>
         /\ LastClick.op = "prev" /\ LastClick.from = 0 => currentSlide = deck - 1
         /\ LastClick.op = "prev" /\ LastClick.from > 0 => currentSlide = LastClick.from - 1
         /\ LastClick.op = "next" /\ LastClick.from = deck - 1 => currentSlide = 0
         /\ LastClick.op = "next" /\ LastClick.from < deck - 1 =>
              currentSlide = LastClick.from + 1
         /\ LastClick.op = "select" => currentSlide = LastClick.index
    /\ Len(clicks) = 2 /\ <<clicks[1].op, clicks[2].op>> \in {<<"prev", "next">>, <<"next", "prev">>}
         => currentSlide = clicks[1].from

WitnessPrevThenNextAcrossTheEnds ==
  /\ endpoint = "carousel"
  /\ deck = 5
  /\ clicks = <<[op |-> "prev", from |-> 0, index |-> 0],
                [op |-> "next", from |-> 4, index |-> 0]>>
  /\ currentSlide = 0

====
